---- MODULE Spec2Model ----
(***************************************************************************)
(* A model of the labyrinth game of src/CODE.py: the entity model          *)
(* (Player, Enemy, Treasure), one run of Game.run_level on a layout, and   *)
(* the mode loop of Game.run.                                              *)
(*                                                                         *)
(* The program is single-threaded.  Key presses, mouse clicks and enemy    *)
(* timers are Tk callbacks, and turtle runs them only inside               *)
(* screen.update() (the screen is in tracer(0) mode throughout).  The      *)
(* model therefore has one control position per call of screen.update():   *)
(* while the control is there any callback may run, any number of times;   *)
(* the code between two updates is one action.                             *)
(***************************************************************************)
EXTENDS Integers, Sequences, FiniteSets, TLC

VARIABLES
    \* Player
    player_pos, gold, move_history, is_auto_mode, is_reverse_mode,
    \* Game flags
    return_to_menu, create_mode, auto_mode, game_mode,
    \* GameLevel being played
    level, walls, treasure_positions, treasures, enemies,
    player_spawn, end_pos,
    \* every Enemy object created for this level (the screen keeps them)
    enemy,
    \* control: position of run_level, loop index, list being replayed
    pc, idx, replay,
    \* observations: value run_level returned, value the last Player.move
    \* returned, what the last frame's checks found
    result, move_ret, frame_log,
    \* Game.run: the suspended callers of the code at pc, the level index,
    \* the running flag, the click handler bound with screen.onclick
    stack, current_level, is_running, onclick,
    \* LevelEditor, and what its handle_click did with the last click (kept
    \* by the editor's own specification only)
    selected_item, placed_items, click_log,
    \* is_clicked of the victory screen's return button
    return_clicked,
    \* what MazeLoader.load_from_file returned
    loaded

playerVars == <<player_pos, gold, move_history, is_auto_mode, is_reverse_mode>>
flagVars   == <<return_to_menu, create_mode, auto_mode, game_mode>>
levelVars  == <<level, walls, treasure_positions, treasures, enemies,
                player_spawn, end_pos>>
ctlVars    == <<pc, idx, replay>>
obsVars    == <<result, move_ret, frame_log>>
editorVars == <<selected_item, placed_items, click_log>>
modeVars   == <<stack, current_level, is_running, loaded, onclick, editorVars,
                return_clicked>>
vars == <<playerVars, flagVars, levelVars, enemy, ctlVars, obsVars, modeVars>>

----------------------------------------------------------------------------
(* Config *)

CELL_SIZE == 24

PLAYER_DETECTION_RADIUS == 100

COLLISION_DISTANCE == 5

TREASURE_VALUE == 100

\* The off-grid coordinate destroy() parks an entity at.
PARK == 2000

\* Bound: the number of accepted moves the model follows in one play.
MaxHist == 3

----------------------------------------------------------------------------
(* Direction *)

Direction == {"UP", "DOWN", "LEFT", "RIGHT"}

dx(d) == CASE d = "UP" -> 0 [] d = "DOWN" -> 0
           [] d = "LEFT" -> -24 [] d = "RIGHT" -> 24

dy(d) == CASE d = "UP" -> 24 [] d = "DOWN" -> -24
           [] d = "LEFT" -> 0 [] d = "RIGHT" -> 0

\* Mutant of opposite: a quarter turn.
opposite_quarter_turn(d) ==
    CASE d = "UP" -> "LEFT" [] d = "LEFT" -> "DOWN"
      [] d = "DOWN" -> "RIGHT" [] d = "RIGHT" -> "UP"

opposite(d) == CASE d = "UP" -> "DOWN" [] d = "DOWN" -> "UP"
                 [] d = "LEFT" -> "RIGHT" [] d = "RIGHT" -> "LEFT"

from_string(s) == CASE s = "up" -> "UP" [] s = "down" -> "DOWN"
                    [] s = "left" -> "LEFT" [] s = "right" -> "RIGHT"
                    [] OTHER -> "UP"

----------------------------------------------------------------------------
(* Position: a pair <<x, y>>.  Every coordinate the program computes is an *)
(* integer, so distances are compared by their squares.                    *)

Step(pos, d) == <<pos[1] + dx(d), pos[2] + dy(d)>>

DistSq(a, b) == (a[1] - b[1]) * (a[1] - b[1]) + (a[2] - b[2]) * (a[2] - b[2])

\* Mutant of is_collision: the threshold itself counts as a collision.
is_collision_inclusive(a, b) ==
    DistSq(a, b) <= COLLISION_DISTANCE * COLLISION_DISTANCE

is_collision(a, b) == DistSq(a, b) < COLLISION_DISTANCE * COLLISION_DISTANCE

----------------------------------------------------------------------------
(* GameLevel and the layouts.  A layout is a sequence of rows, a row a     *)
(* sequence of one-character strings.                                      *)

\* The scenario layout of the specification: ["XXX", "XPX", "XFX"].
LayoutScenario ==
    << <<"X", "X", "X">>,
       <<"X", "P", "X">>,
       <<"X", "F", "X">> >>

\* A corridor with an enemy behind the end: ["XXXXXX", "XP FEX", "XXXXXX"].
LayoutCorridor ==
    << <<"X", "X", "X", "X", "X", "X">>,
       <<"X", "P", " ", "F", "E", "X">>,
       <<"X", "X", "X", "X", "X", "X">> >>

\* A room with a treasure: ["XXXX", "XPTX", "X  X", "XF X", "XXXX"].
LayoutRoom ==
    << <<"X", "X", "X", "X">>,
       <<"X", "P", "T", "X">>,
       <<"X", " ", " ", "X">>,
       <<"X", "F", " ", "X">>,
       <<"X", "X", "X", "X">> >>

\* A yard with an enemy five cells away from the player, further than the
\* detection radius, and a treasure behind the enemy:
\* ["XXXXXXXXX", "XP    ETX", "XF XXXXXX", "XXXXXXXXX"].
LayoutYard ==
    << <<"X", "X", "X", "X", "X", "X", "X", "X", "X">>,
       <<"X", "P", " ", " ", " ", " ", "E", "T", "X">>,
       <<"X", "F", " ", "X", "X", "X", "X", "X", "X">>,
       <<"X", "X", "X", "X", "X", "X", "X", "X", "X">> >>

\* A level with a treasure between the player and the end:
\* ["XXXXX", "XPTFX", "XXXXX"].
LayoutPath ==
    << <<"X", "X", "X", "X", "X">>,
       <<"X", "P", "T", "F", "X">>,
       <<"X", "X", "X", "X", "X">> >>

\* GameLevel(layout, auto_solution) objects the play loop is run on.
TestLevels ==
    << [layout |-> LayoutScenario, auto_solution |-> <<>>],
       [layout |-> LayoutCorridor, auto_solution |-> <<"right", "right">>],
       [layout |-> LayoutRoom, auto_solution |-> <<"down", "down">>],
       [layout |-> LayoutYard, auto_solution |-> <<>>],
       [layout |-> LayoutPath, auto_solution |-> <<"right", "right">>] >>

\* Python's round(n / 2): halves are rounded to the even neighbour.
RoundHalf(n) ==
    IF n % 2 = 0 THEN n \div 2
    ELSE IF ((n - 1) \div 2) % 2 = 0 THEN (n - 1) \div 2 ELSE (n + 1) \div 2

\* row and col are 0-based, as in the code.
get_screen_position(layout, row, col) ==
    << (col * CELL_SIZE) - (CELL_SIZE * RoundHalf(Len(layout[1]))),
       (CELL_SIZE * RoundHalf(Len(layout))) - (row * CELL_SIZE) >>

\* The cells of a layout in the order setup_level visits them (row-major),
\* as <<row, col>> with 1-based indices.
RECURSIVE RowCells(_, _, _)
RowCells(layout, r, c) ==
    IF c > Len(layout[r]) THEN <<>>
    ELSE <<<<r, c>>>> \o RowCells(layout, r, c + 1)

RECURSIVE Cells(_, _)
Cells(layout, r) ==
    IF r > Len(layout) THEN <<>>
    ELSE RowCells(layout, r, 1) \o Cells(layout, r + 1)

CharAt(layout, cell) == layout[cell[1]][cell[2]]

PosOf(layout, cell) == get_screen_position(layout, cell[1] - 1, cell[2] - 1)

\* The positions of the cells holding character ch, in visiting order.
PositionsOf(layout, cells, ch) ==
    LET sel == SelectSeq(cells, LAMBDA c : CharAt(layout, c) = ch)
    IN [i \in 1..Len(sel) |-> PosOf(layout, sel[i])]

SeqToSet(s) == {s[i] : i \in 1..Len(s)}

\* "No position" (Python's None).
None == <<>>

\* The player's spawn and position as the parse loop of setup_level leaves
\* them.  Every P sets both, so the last P decides.  An S sets them only
\* while no spawn is recorded: without a P the first S decides, and none
\* does if the level held a spawn before.
ScanSpawn(layout, cells, st) ==
    LET ps == PositionsOf(layout, cells, "P")
        ss == PositionsOf(layout, cells, "S")
    IN IF ps # <<>> THEN [spawn |-> ps[Len(ps)], pos |-> ps[Len(ps)]]
       ELSE IF st.spawn = None /\ ss # <<>>
       THEN [spawn |-> ss[1], pos |-> ss[1]]
       ELSE st

LastOr(s, dflt) == IF s = <<>> THEN dflt ELSE s[Len(s)]

\* What setup_level computes from a layout, given the walls, treasure
\* positions and spawn the GameLevel object already holds.
ParseLevel(layout, old_walls, old_tpos, old_spawn) ==
    LET cells == Cells(layout, 1)
        sp    == ScanSpawn(layout, cells, [spawn |-> old_spawn, pos |-> <<0, 0>>])
        ts    == PositionsOf(layout, cells, "T")
    IN [ walls |-> old_walls \cup SeqToSet(PositionsOf(layout, cells, "X"))
                             \cup SeqToSet(PositionsOf(layout, cells, "S")),
         treasure_positions |-> old_tpos \cup SeqToSet(ts),
         treasures |-> [i \in 1..Len(ts) |->
                          [id |-> i, pos |-> ts[i], gold |-> TREASURE_VALUE]],
         enemy_pos |-> PositionsOf(layout, cells, "E"),
         player_spawn |-> sp.spawn,
         player_pos |-> sp.pos,
         end_pos |-> LastOr(PositionsOf(layout, cells, "F"), None) ]


----------------------------------------------------------------------------
(* The built-in levels, Game._create_levels *)

\* lines 738-741
level_0_layout ==
    <<
       <<"X", "X", "X", "X", "X", "X", "X", "X", "X", "X", "X", "X", "X", "X", "S", "X">>,
       <<"X", " ", " ", " ", " ", " ", " ", " ", " ", " ", " ", " ", " ", " ", "P", "X">>,
       <<"F", "T", "X", "X", "X", "X", "X", "X", "X", "X", "X", "X", "X", "X", "X", "X">>,
       <<"X", "X", "X", "X", "X", "X", "X", "X", "X", "X", "X", "X", "X", "X", "X", "X">> >>

\* lines 748-759
level_1_layout ==
    <<
       <<"X", "X", "X", "X", "X", "X", "X", "X", "X", "X", "X", "X", "X", "X", "X">>,
       <<"X", " ", "X", " ", "X", "T", " ", " ", " ", " ", " ", " ", " ", " ", "F">>,
       <<"X", " ", "X", " ", " ", " ", "X", "X", "X", "X", "X", "X", "X", "X", "X">>,
       <<"X", "T", " ", " ", "X", " ", " ", " ", " ", " ", " ", " ", " ", " ", "X">>,
       <<"X", "X", "X", "X", "X", "X", "X", "X", "X", "X", "X", "X", "X", " ", "X">>,
       <<"X", "X", "X", "X", "X", "X", "X", "X", "X", "X", "X", "X", "X", " ", "X">>,
       <<"X", "T", " ", " ", " ", " ", " ", " ", " ", " ", " ", " ", "X", " ", "X">>,
       <<"X", "X", "X", "X", "X", "X", "X", "X", "X", "X", "X", " ", " ", " ", "X">>,
       <<"X", "T", " ", " ", " ", " ", " ", " ", " ", " ", " ", " ", "X", " ", "X">>,
       <<"X", "X", "X", "X", "X", "X", "X", "X", "X", "X", "X", "X", "X", " ", "X">>,
       <<"X", "P", " ", " ", " ", " ", " ", " ", " ", " ", " ", " ", " ", " ", "X">>,
       <<"X", "X", "X", "X", "X", "X", "X", "X", "X", "X", "X", "X", "X", "X", "X">> >>

\* lines 765-789; its 21st row has 24 characters
level_2_layout ==
    <<
       <<"X", "X", "X", "X", "X", "X", "X", "X", "X", "X", "X", "X", "X", "X", "X", "X", "X", "X", "X", "X", "X", "X", "X", "X", "X">>,
       <<"X", "P", " ", "X", "X", "X", "X", "X", "X", "X", " ", " ", " ", " ", " ", " ", " ", " ", " ", " ", "X", "X", "X", "X", "X">>,
       <<"X", " ", " ", "X", "X", "X", "X", "X", "X", "X", " ", " ", "X", "X", "X", "X", "X", "X", " ", " ", "X", "X", "X", "X", "X">>,
       <<"X", " ", " ", " ", " ", " ", " ", " ", "X", "X", " ", "E", "X", "X", "X", "X", "X", "X", " ", "E", "X", "X", "X", "X", "X">>,
       <<"X", " ", " ", " ", " ", " ", " ", " ", "X", "X", " ", " ", "X", "X", "X", " ", " ", " ", " ", " ", " ", " ", " ", "X", "X">>,
       <<"X", "X", "X", "X", "X", "X", " ", " ", "X", "X", " ", " ", "X", "X", "X", " ", "E", " ", " ", " ", " ", " ", " ", "X", "X">>,
       <<"X", "X", "X", "X", "X", "X", " ", " ", "X", "X", " ", " ", "X", "X", "X", "X", "X", "X", " ", " ", "X", "X", "X", "X", "X">>,
       <<"X", "X", "X", "X", "X", "X", " ", " ", "X", "X", " ", " ", " ", " ", "X", "X", "X", "X", " ", " ", "X", "X", "X", "X", "X">>,
       <<"X", " ", " ", "X", "X", "X", " ", " ", " ", " ", " ", " ", " ", " ", "X", "X", "X", "X", "T", " ", "X", "X", "X", "X", "X">>,
       <<"X", " ", " ", "X", "X", "X", " ", " ", "X", "X", "X", "X", "X", "X", "X", "X", "X", "X", "X", "X", "X", "X", "X", "X", "X">>,
       <<"X", " ", " ", " ", " ", " ", " ", " ", " ", " ", "X", "X", "X", "X", "X", "X", "X", "X", "X", "X", "X", "X", "X", "X", "X">>,
       <<"X", "E", " ", " ", " ", " ", " ", " ", " ", " ", " ", " ", " ", " ", " ", " ", " ", "X", "X", "X", "X", "X", "X", "X", "X">>,
       <<"X", "X", "X", "X", "X", "X", "X", "X", "X", "X", "X", "X", " ", " ", " ", " ", " ", "X", "X", "X", "X", "X", "T", " ", "X">>,
       <<"X", "X", "X", "X", "X", "X", "X", "X", "X", "X", "X", "X", "X", "X", "X", " ", " ", "X", "X", "X", "X", "X", " ", " ", "X">>,
       <<"X", "X", "X", "T", " ", "X", "X", "X", "X", "X", "X", "X", "X", "X", "X", " ", " ", " ", " ", " ", " ", " ", " ", " ", "X">>,
       <<"X", "X", "X", " ", " ", " ", " ", " ", " ", " ", " ", " ", " ", " ", " ", " ", " ", " ", " ", " ", " ", " ", " ", " ", "X">>,
       <<"X", "X", "X", " ", " ", " ", " ", " ", " ", " ", " ", " ", "X", "X", "X", "X", "X", "X", "X", "X", "X", "X", "X", "X", "X">>,
       <<"X", "X", "X", "X", "X", "X", "X", "X", "X", "X", " ", " ", "X", "X", "X", "X", "X", "X", "X", "X", "X", "X", "X", "X", "X">>,
       <<"X", "X", "X", "X", "X", "X", "X", "X", "X", "X", " ", " ", " ", " ", " ", " ", " ", " ", " ", " ", " ", " ", " ", "T", "X">>,
       <<"X", "X", "T", " ", " ", "X", "X", "X", "X", "X", "E", " ", " ", " ", " ", " ", " ", " ", " ", " ", " ", " ", " ", " ", "X">>,
       <<"X", "X", " ", " ", " ", "X", "X", "X", "X", "X", "X", " ", " ", " ", " ", " ", " ", " ", " ", "X", "X", "X", "X", "X">>,
       <<"X", "X", " ", " ", " ", " ", "F", "X", "X", "X", "X", "X", "X", "X", "X", "X", "X", "X", " ", " ", "X", "X", "X", "X", "X">>,
       <<"X", "X", " ", " ", " ", " ", " ", " ", " ", " ", " ", " ", "X", "X", "X", "X", " ", " ", " ", " ", " ", " ", " ", " ", "X">>,
       <<"X", "X", "X", "X", "E", " ", " ", " ", " ", " ", " ", " ", " ", " ", " ", " ", " ", " ", " ", " ", " ", " ", " ", " ", "X">>,
       <<"X", "X", "X", "X", "X", "X", "X", "X", "X", "X", "X", "X", "X", "X", "X", "X", "X", "X", "X", "X", "X", "X", "X", "X", "X">> >>

\* n copies of token t: [t] * n
Times(t, n) == [i \in 1..n |-> t]

level_0 ==
    [layout |-> level_0_layout,
     auto_solution |-> Times("left", 12) \o <<"down">> \o Times("left", 2)]

level_1 ==
    [layout |-> level_1_layout,
     auto_solution |-> Times("right", 12) \o Times("up", 7) \o Times("left", 8)
                       \o Times("up", 2) \o Times("right", 9)]

level_2 == [layout |-> level_2_layout, auto_solution |-> <<>>]

\* self.levels; levels[i + 1] is the level of index i.
levels == <<level_0, level_1, level_2>>

NumLevels == Len(levels)

----------------------------------------------------------------------------
(* Player *)

\* Mutant of move: the reverse-mode flag is not consulted.
move_ignores_reverse(pos, hist, auto, rev, direction, walls_) ==
    LET new_pos == Step(pos, direction)
    IN IF new_pos \notin walls_ /\ ~auto
       THEN [pos |-> new_pos, hist |-> Append(hist, opposite(direction)),
             ret |-> TRUE]
       ELSE [pos |-> pos, hist |-> hist, ret |-> FALSE]

\* Mutant of move: the direction itself is recorded, not its opposite.
move_records_direction(pos, hist, auto, rev, direction, walls_) ==
    LET new_pos == Step(pos, direction)
    IN IF new_pos \notin walls_ /\ ~auto /\ ~rev
       THEN [pos |-> new_pos, hist |-> Append(hist, direction), ret |-> TRUE]
       ELSE [pos |-> pos, hist |-> hist, ret |-> FALSE]

\* Mutant of move: the auto-mode flag is not consulted.
move_ignores_auto(pos, hist, auto, rev, direction, walls_) ==
    LET new_pos == Step(pos, direction)
    IN IF new_pos \notin walls_ /\ ~rev
       THEN [pos |-> new_pos, hist |-> Append(hist, opposite(direction)),
             ret |-> TRUE]
       ELSE [pos |-> pos, hist |-> hist, ret |-> FALSE]

\* Player.move: the new position, history and the value returned.
\* Mutant of move: every step to the left is refused.
move_never_left(pos, hist, auto, rev, direction, walls_) ==
    LET new_pos == Step(pos, direction)
    IN IF new_pos \notin walls_ /\ ~auto /\ ~rev /\ direction # "LEFT"
       THEN [pos |-> new_pos, hist |-> Append(hist, opposite(direction)),
             ret |-> TRUE]
       ELSE [pos |-> pos, hist |-> hist, ret |-> FALSE]

move(pos, hist, auto, rev, direction, walls_) ==
    LET new_pos == Step(pos, direction)
    IN IF new_pos \notin walls_ /\ ~auto /\ ~rev
       THEN [pos |-> new_pos, hist |-> Append(hist, opposite(direction)),
             ret |-> TRUE]
       ELSE [pos |-> pos, hist |-> hist, ret |-> FALSE]

\* Player.move_to_direction: no validation.
move_to_direction(pos, direction) == Step(pos, direction)

\* Mutant of Reverse: the list is taken in its own order.
KeepOrder(s) == s

\* list[::-1]
Reverse(s) == [i \in 1..Len(s) |-> s[Len(s) + 1 - i]]

----------------------------------------------------------------------------
(* One run of Game.run_level(level).                                       *)

\* The control positions: each is a call of screen.update().
UpdatePcs == {"setup_upd", "auto_upd", "post_auto_upd", "replay_upd",
              "bravo_upd", "frame_upd"}

AtUpdate == pc \in UpdatePcs

\* The calls of screen.update() outside run_level: show_main_menu (880),
\* Game.run (1353), show_level_select (1295), run_creator_mode (1176, 1181,
\* 1190: one position, each is followed by the test of a wait loop; the
\* update of the second wait loop entered by a break out of the first is
\* "creator_wait2"),
\* _show_victory_screen (1409, 1423), handle_editor_click (1171),
\* LevelEditor.handle_click (536, 554, 572), _play_custom_level (1243, 1246).
ModeUpdatePcs == {"menu_upd", "loop_upd", "select_upd", "creator_upd",
                  "creator_wait2", "victory_upd", "victory_wait",
                  "editor_click_upd", "msg_upd", "custom_err_upd1",
                  "custom_err_upd2"}

\* Mouse clicks are delivered by every screen.update().
AtAnyUpdate == pc \in UpdatePcs \cup ModeUpdatePcs

HasAuto == level.auto_solution # <<>>

\* The state setup_level leaves when it reaches its screen.update().
InitLevel(lv) ==
    LET p == ParseLevel(lv.layout, {}, {}, None)
        n == Len(p.enemy_pos)
    IN /\ level = lv
       /\ walls = p.walls
       /\ treasure_positions = p.treasure_positions
       /\ treasures = p.treasures
       /\ enemies = [i \in 1..n |-> i]
       /\ player_spawn = p.player_spawn
       /\ end_pos = p.end_pos
       /\ player_pos = p.player_pos
       /\ enemy \in {[i \in 1..n |->
                         [pos |-> at[i], current_direction |-> hd[i],
                          is_active |-> TRUE, timers |-> 1]] :
                     at \in {p.enemy_pos}, hd \in [1..n -> Direction]}

\* MazeLoader.load_from_file has not been called.
NotLoaded == [maze |-> <<>>, start_pos |-> <<-1>>, end_pos |-> <<-1>>]

\* No click has been given to LevelEditor.handle_click yet.
NoClick == [x |-> 0, y |-> 0, action |-> "none", msg |-> "none",
            placed |-> FALSE, layout |-> <<>>]

NoFrame == [pos |-> None, picked |-> 0, hit_enemy |-> FALSE, at_end |-> FALSE]

\* run_level is called on one of the levels lvs.
InitPlay(lvs) ==
    /\ \E i \in 1..Len(lvs) : InitLevel(lvs[i])
    /\ gold = 0
    /\ move_history = <<>>
    /\ is_auto_mode = FALSE
    /\ is_reverse_mode = FALSE
    /\ return_to_menu = FALSE
    /\ create_mode = FALSE
    /\ auto_mode = FALSE
    /\ game_mode = "play"
    /\ pc = "setup_upd"
    /\ idx = 0
    /\ replay = <<>>
    /\ result = "running"
    /\ move_ret = FALSE
    /\ frame_log = NoFrame
    /\ stack = <<>>
    /\ current_level = 0
    /\ is_running = TRUE
    /\ loaded = NotLoaded
    /\ onclick = "level"
    /\ selected_item = "none"
    /\ placed_items = <<>>
    /\ click_log = NoClick
    /\ return_clicked = FALSE

Init == InitPlay(TestLevels)

(* Callbacks, run by screen.update() *)

\* A key press: the lambda of _setup_controls calls Player.move.
KeyPress(d) ==
    /\ AtUpdate
    /\ LET m == move(player_pos, move_history, is_auto_mode, is_reverse_mode,
                     d, walls)
       IN /\ m.ret => Len(move_history) < MaxHist
          /\ player_pos' = m.pos
          /\ move_history' = m.hist
          /\ move_ret' = m.ret
    /\ UNCHANGED <<gold, is_auto_mode, is_reverse_mode, flagVars, levelVars,
                   enemy, ctlVars, result, frame_log,
                   modeVars>>

\* setup_level.handle_button_click; btn is the button under the click.
\* A level shows MENU and, at the same place, Auto (if it has an
\* auto-solution) or Create.  The handler stays bound, and the buttons stay
\* in Game.buttons, until another screen.onclick call replaces it.
handle_button_click(btn) ==
    /\ AtAnyUpdate
    /\ onclick = "level"
    /\ \/ /\ btn = "menu"
          /\ return_to_menu' = TRUE
          /\ UNCHANGED <<auto_mode, create_mode>>
       \/ /\ btn = "auto" /\ HasAuto
          /\ auto_mode' = TRUE
          /\ UNCHANGED <<return_to_menu, create_mode>>
       \/ /\ btn = "create" /\ ~HasAuto
          /\ create_mode' = TRUE
          /\ UNCHANGED <<return_to_menu, auto_mode>>
    /\ UNCHANGED <<playerVars, game_mode, levelVars, enemy, ctlVars, obsVars,
                   modeVars>>


(* Enemy *)

\* Enemy._is_close_to_player
is_close_to_player(e, ppos) ==
    DistSq(e.pos, ppos) < PLAYER_DETECTION_RADIUS * PLAYER_DETECTION_RADIUS

\* Mutant of ChaseHeading: the y coordinates are compared first.
ChaseHeading_y_first(e, ppos) ==
    IF ppos[2] < e.pos[2] THEN "DOWN"
    ELSE IF ppos[2] > e.pos[2] THEN "UP"
    ELSE IF ppos[1] < e.pos[1] THEN "LEFT"
    ELSE IF ppos[1] > e.pos[1] THEN "RIGHT"
    ELSE e.current_direction

\* The heading _move_towards_player sets before it tries the step.
ChaseHeading(e, ppos) ==
    IF ppos[1] < e.pos[1] THEN "LEFT"
    ELSE IF ppos[1] > e.pos[1] THEN "RIGHT"
    ELSE IF ppos[2] < e.pos[2] THEN "DOWN"
    ELSE IF ppos[2] > e.pos[2] THEN "UP"
    ELSE e.current_direction

\* Mutant of try_move: treasures do not block the step.
try_move_over_treasures(e, rnd) ==
    LET new_pos == Step(e.pos, e.current_direction)
    IN IF new_pos \notin walls
       THEN [e EXCEPT !.pos = new_pos]
       ELSE [e EXCEPT !.current_direction = rnd]

\* Enemy._try_move; rnd is the value random.choice returns if it is called.
try_move(e, rnd) ==
    LET new_pos == Step(e.pos, e.current_direction)
    IN IF new_pos \notin walls /\ new_pos \notin treasure_positions
       THEN [e EXCEPT !.pos = new_pos]
       ELSE [e EXCEPT !.current_direction = rnd]

\* Mutant of EnemyMove: the active flag is not looked at before the move.
EnemyMove_unguarded(e, ppos, rnd) ==
    LET fired == [e EXCEPT !.timers = e.timers - 1]
        moved == IF is_close_to_player(fired, ppos)
                 THEN try_move([fired EXCEPT !.current_direction =
                                   ChaseHeading(fired, ppos)], rnd)
                 ELSE try_move(fired, rnd)
    IN IF moved.is_active
       THEN [moved EXCEPT !.timers = moved.timers + 1]
       ELSE moved

\* Mutant of EnemyMove: the next timer is set whether or not the enemy is
\* active.
EnemyMove_rearms(e, ppos, rnd) ==
    LET fired == [e EXCEPT !.timers = e.timers - 1]
        moved == IF ~fired.is_active THEN fired
                 ELSE IF is_close_to_player(fired, ppos)
                 THEN try_move([fired EXCEPT !.current_direction =
                                   ChaseHeading(fired, ppos)], rnd)
                 ELSE try_move(fired, rnd)
    IN [moved EXCEPT !.timers = moved.timers + 1]

\* Mutant of EnemyMove: the heading is never set towards the player.
EnemyMove_never_chases(e, ppos, rnd) ==
    LET fired == [e EXCEPT !.timers = e.timers - 1]
    IN IF ~fired.is_active THEN fired
       ELSE LET moved == try_move(fired, rnd)
            IN IF moved.is_active
               THEN [moved EXCEPT !.timers = moved.timers + 1]
               ELSE moved

\* Enemy.move, the timer callback: the timer that fired is consumed, and a
\* new one is set only if the enemy is (still) active.
EnemyMove(e, ppos, rnd) ==
    LET fired == [e EXCEPT !.timers = e.timers - 1]
    IN IF ~fired.is_active THEN fired
       ELSE LET moved ==
                  IF is_close_to_player(fired, ppos)
                  THEN try_move([fired EXCEPT !.current_direction =
                                    ChaseHeading(fired, ppos)], rnd)
                  ELSE try_move(fired, rnd)
            IN IF moved.is_active
               THEN [moved EXCEPT !.timers = moved.timers + 1]
               ELSE moved

EnemyTick(i) ==
    /\ AtUpdate
    /\ enemy[i].timers > 0
    /\ \E rnd \in Direction :
         enemy' = [enemy EXCEPT ![i] = EnemyMove(enemy[i], player_pos, rnd)]
    /\ UNCHANGED <<playerVars, flagVars, levelVars, ctlVars, obsVars,
                   modeVars>>

(* The play loop *)

\* Enemy.destroy
destroy(e) == [e EXCEPT !.is_active = FALSE, !.pos = <<PARK, PARK>>]

\* Mutant of CleanedEnemies: the enemies are hidden but not stopped.
CleanedEnemies_not_stopped ==
    [i \in DOMAIN enemy |->
        IF i \in SeqToSet(enemies)
        THEN [enemy[i] EXCEPT !.pos = <<PARK, PARK>>] ELSE enemy[i]]

\* Game._cleanup_level: the enemy objects after it; both live lists are
\* emptied.
CleanedEnemies ==
    [i \in DOMAIN enemy |->
        IF i \in SeqToSet(enemies) THEN destroy(enemy[i]) ELSE enemy[i]]

\* Mutant of Cleanup: the treasures are not taken out of the level's list.
Cleanup_keeps_treasures ==
    /\ enemy' = CleanedEnemies
    /\ enemies' = <<>>
    /\ UNCHANGED <<level, walls, treasure_positions, treasures, player_spawn,
                   end_pos>>

Cleanup ==
    /\ enemy' = CleanedEnemies
    /\ enemies' = <<>>
    /\ treasures' = <<>>
    /\ UNCHANGED <<level, walls, treasure_positions, player_spawn, end_pos>>

RECURSIVE SumGold(_)
SumGold(ts) == IF ts = <<>> THEN 0 ELSE Head(ts).gold + SumGold(Tail(ts))

Collected(ppos) == SelectSeq(treasures, LAMBDA t : is_collision(ppos, t.pos))

\* Mutant of NotCollected: a collected treasure stays in the list.
NotCollected_keeps_all(ppos) == treasures

NotCollected(ppos) == SelectSeq(treasures, LAMBDA t : ~is_collision(ppos, t.pos))

HitsEnemy(ppos) ==
    \E k \in 1..Len(enemies) : is_collision(ppos, enemy[enemies[k]].pos)

AtEnd(ppos) == end_pos # None /\ is_collision(ppos, end_pos)

\* Mutant of FrameOutcome: the end position is checked before the enemies.
FrameOutcome_EndFirst(ppos) ==
    IF AtEnd(ppos) THEN "victory"
    ELSE IF HitsEnemy(ppos) THEN "death"
    ELSE IF create_mode THEN "create"
    ELSE "continue"

\* Which of the frame's checks ends it, in the order the code makes them
\* (lines 1072-1111): enemy collision, end position, create flag.
FrameOutcome(ppos) ==
    IF HitsEnemy(ppos) THEN "death"
    ELSE IF AtEnd(ppos) THEN "victory"
    ELSE IF create_mode THEN "create"
    ELSE "continue"

\* The checks of one frame, lines 1064-1114: treasures, enemies, end.  The
\* action runs to the next screen.update() or to the return.
FrameChecks ==
    /\ gold' = gold + SumGold(Collected(player_pos))
    /\ frame_log' = [pos |-> player_pos,
                     picked |-> Len(Collected(player_pos)),
                     hit_enemy |-> HitsEnemy(player_pos),
                     at_end |-> AtEnd(player_pos)]
    /\ LET outcome == FrameOutcome(player_pos)
       IN IF outcome = "death"
          THEN \* player.destroy(), cleanup, return False
               /\ player_pos' = <<PARK, PARK>>
               /\ Cleanup
               /\ result' = "failure"
               /\ pc' = "returned"
               /\ UNCHANGED <<is_reverse_mode, idx, replay, game_mode>>
          ELSE IF outcome = "victory"
          THEN \* the victory replay starts: up to its first screen.update()
               /\ is_reverse_mode' = TRUE
               /\ replay' = Reverse(move_history)
               /\ IF move_history = <<>>
                  THEN /\ pc' = "bravo_upd"
                       /\ UNCHANGED <<player_pos, idx>>
                  ELSE /\ player_pos' = move_to_direction(player_pos,
                                            Reverse(move_history)[1])
                       /\ idx' = 1
                       /\ pc' = "replay_upd"
               /\ treasures' = NotCollected(player_pos)
               /\ UNCHANGED <<enemy, enemies, level, walls, treasure_positions,
                              player_spawn, end_pos, result, game_mode>>
          ELSE IF outcome = "create"
          THEN /\ Cleanup
               /\ result' = "failure"
               /\ pc' = "returned"
               /\ UNCHANGED <<player_pos, is_reverse_mode, idx, replay,
                              game_mode>>
          ELSE /\ pc' = "frame_upd"
               /\ treasures' = NotCollected(player_pos)
               /\ UNCHANGED <<player_pos, is_reverse_mode, idx, replay, enemy,
                              enemies, level, walls, treasure_positions,
                              player_spawn, end_pos, result, game_mode>>
    /\ UNCHANGED <<move_history, is_auto_mode, return_to_menu, create_mode,
                   auto_mode, move_ret,
                   modeVars>>

\* The head of the play loop, lines 1039-1062, entered after the update of
\* setup_level or of the previous frame.
LoopHead ==
    /\ pc \in {"setup_upd", "frame_upd"}
    /\ IF return_to_menu
       THEN /\ Cleanup
            /\ result' = "failure"
            /\ pc' = "returned"
            /\ UNCHANGED <<playerVars, flagVars, idx, replay, move_ret,
                           frame_log,
                   modeVars>>
       ELSE IF create_mode
       THEN /\ Cleanup
            /\ game_mode' = "create"
            /\ result' = "failure"
            /\ pc' = "returned"
            /\ UNCHANGED <<playerVars, return_to_menu, create_mode, auto_mode,
                           idx, replay, move_ret, frame_log,
                   modeVars>>
       ELSE IF auto_mode
       THEN \* run_auto_mode, up to the screen.update() of its first step
            IF level.auto_solution = <<>>
            THEN /\ auto_mode' = FALSE
                 /\ IF player_spawn # None
                    THEN player_pos' = player_spawn /\ move_history' = <<>>
                    ELSE UNCHANGED <<player_pos, move_history>>
                 /\ pc' = "post_auto_upd"
                 /\ UNCHANGED <<gold, is_auto_mode, is_reverse_mode,
                                return_to_menu, create_mode, game_mode,
                                levelVars, enemy, idx, replay, obsVars,
                   modeVars>>
            ELSE /\ is_auto_mode' = TRUE
                 /\ player_pos' = move_to_direction(
                        IF player_spawn # None THEN player_spawn ELSE player_pos,
                        from_string(level.auto_solution[1]))
                 /\ move_history' =
                        IF player_spawn # None THEN <<>> ELSE move_history
                 /\ idx' = 1
                 /\ pc' = "auto_upd"
                 /\ UNCHANGED <<gold, is_reverse_mode, flagVars, levelVars,
                                enemy, replay, obsVars,
                   modeVars>>
       ELSE FrameChecks

\* Mutant of AutoStep: the treasures under the player are collected.
AutoStep_collects ==
    /\ pc = "auto_upd"
    /\ idx < Len(level.auto_solution)
    /\ player_pos' = move_to_direction(player_pos,
                        from_string(level.auto_solution[idx + 1]))
    /\ idx' = idx + 1
    /\ gold' = gold + SumGold(Collected(player_pos))
    /\ treasures' = NotCollected(player_pos)
    /\ UNCHANGED <<move_history, is_auto_mode, is_reverse_mode,
                   flagVars, level, walls, treasure_positions, enemies,
                   player_spawn, end_pos, enemy, pc, replay, obsVars,
                   modeVars>>

\* The next step of the scripted replay, lines 1020-1030.
AutoStep ==
    /\ pc = "auto_upd"
    /\ idx < Len(level.auto_solution)
    /\ player_pos' = move_to_direction(player_pos,
                        from_string(level.auto_solution[idx + 1]))
    /\ idx' = idx + 1
    /\ UNCHANGED <<gold, move_history, is_auto_mode, is_reverse_mode,
                   flagVars, levelVars, enemy, pc, replay, obsVars,
                   modeVars>>

\* Mutant of AutoFinish: the player is left where the solution ended.
AutoFinish_stays ==
    /\ pc = "auto_upd"
    /\ idx = Len(level.auto_solution)
    /\ is_auto_mode' = FALSE
    /\ auto_mode' = FALSE
    /\ pc' = "post_auto_upd"
    /\ UNCHANGED <<player_pos, move_history, gold, is_reverse_mode,
                   return_to_menu, create_mode, game_mode, levelVars, enemy,
                   idx, replay, obsVars, modeVars>>

\* The end of run_auto_mode and lines 1055-1062 of run_level.
AutoFinish ==
    /\ pc = "auto_upd"
    /\ idx = Len(level.auto_solution)
    /\ is_auto_mode' = FALSE
    /\ auto_mode' = FALSE
    /\ IF player_spawn # None
       THEN player_pos' = player_spawn /\ move_history' = <<>>
       ELSE UNCHANGED <<player_pos, move_history>>
    /\ pc' = "post_auto_upd"
    /\ UNCHANGED <<gold, is_reverse_mode, return_to_menu, create_mode,
                   game_mode, levelVars, enemy, idx, replay, obsVars,
                   modeVars>>

\* The rest of the frame in which auto-solve ran.
PostAuto ==
    /\ pc = "post_auto_upd"
    /\ FrameChecks

\* The next step of the victory replay, lines 1090-1094.
ReplayStep ==
    /\ pc = "replay_upd"
    /\ idx < Len(replay)
    /\ player_pos' = move_to_direction(player_pos, replay[idx + 1])
    /\ idx' = idx + 1
    /\ UNCHANGED <<gold, move_history, is_auto_mode, is_reverse_mode,
                   flagVars, levelVars, enemy, pc, replay, obsVars,
                   modeVars>>

\* The replay is over: the message is written, lines 1096-1103.
ReplayFinish ==
    /\ pc = "replay_upd"
    /\ idx = Len(replay)
    /\ pc' = "bravo_upd"
    /\ UNCHANGED <<playerVars, flagVars, levelVars, enemy, idx, replay,
                   obsVars,
                   modeVars>>

\* Lines 1104-1106: cleanup, return True.
BravoDone ==
    /\ pc = "bravo_upd"
    /\ Cleanup
    /\ result' = "success"
    /\ pc' = "returned"
    /\ UNCHANGED <<playerVars, flagVars, idx, replay, move_ret, frame_log,
                   modeVars>>

Next ==
    \/ \E d \in Direction : KeyPress(d)
    \/ \E b \in {"menu", "auto", "create"} : handle_button_click(b)
    \/ \E i \in DOMAIN enemy : EnemyTick(i)
    \/ LoopHead
    \/ AutoStep
    \/ AutoFinish
    \/ PostAuto
    \/ ReplayStep
    \/ ReplayFinish
    \/ BravoDone

Spec == Init /\ [][Next]_vars


----------------------------------------------------------------------------
(* Properties of the play loop (checked under Spec) *)

\* pos after move_to_direction was applied to every entry of ds, in order.
RECURSIVE ReplayAll(_, _)
ReplayAll(pos, ds) ==
    IF ds = <<>> THEN pos
    ELSE ReplayAll(<<pos[1] + dx(Head(ds)), pos[2] + dy(Head(ds))>>, Tail(ds))

Backwards(s) == [i \in 1..Len(s) |-> s[Len(s) + 1 - i]]

\* C1: a call of Player.move(d, walls) changes neither position nor history
\* and returns false if the cell one step in direction d is a wall or the
\* player is in auto-mode or reverse-mode; otherwise it moves the player by
\* d's displacement, appends d.opposite and returns true.
C1_MoveContract ==
    [][\A d \in Direction :
         KeyPress(d) =>
           IF \/ <<player_pos[1] + dx(d), player_pos[2] + dy(d)>> \in walls
              \/ is_auto_mode
              \/ is_reverse_mode
           THEN /\ player_pos' = player_pos
                /\ move_history' = move_history
                /\ move_ret' = FALSE
           ELSE /\ player_pos' = <<player_pos[1] + dx(d), player_pos[2] + dy(d)>>
                /\ move_history' = Append(move_history, opposite(d))
                /\ move_ret' = TRUE]_vars

\* A move was accepted, and a later one was rejected in reverse-mode.
C1_Witness ==
    /\ is_reverse_mode
    /\ move_history # <<>>
    /\ move_ret = FALSE

\* C2: while the player is under keyboard control, replaying the history
\* backwards from the current position leads to the position the history
\* started from (the player spawn); the victory replay, step by step, does
\* exactly that and ends on the spawn.
C2_ReplayReturns ==
    /\ pc \in {"setup_upd", "frame_upd", "post_auto_upd"} =>
         ReplayAll(player_pos, Backwards(move_history)) = player_spawn
    /\ pc = "replay_upd" =>
         ReplayAll(player_pos, SubSeq(Backwards(move_history), idx + 1,
                                      Len(move_history))) = player_spawn
    /\ pc = "bravo_upd" => player_pos = player_spawn

\* The victory replay of a path of at least two moves has ended.
C2_Witness ==
    /\ pc = "bravo_upd"
    /\ Len(move_history) >= 2
    /\ player_pos = player_spawn

\* C3: once a frame has found the player on the end position, and no enemy
\* on the player, reverse-mode is set, the history is replayed backwards
\* from that position one entry per step, and the only return of run_level
\* is success with the level torn down, whatever the enemies do meanwhile.
C3_VictoryReplay ==
    (frame_log.at_end /\ ~frame_log.hit_enemy) =>
        /\ is_reverse_mode
        /\ pc \in {"replay_upd", "bravo_upd", "returned"}
        /\ pc = "replay_upd" =>
             player_pos = ReplayAll(frame_log.pos,
                                    SubSeq(Backwards(move_history), 1, idx))
        /\ pc \in {"bravo_upd", "returned"} =>
             player_pos = ReplayAll(frame_log.pos, Backwards(move_history))
        /\ pc = "returned" =>
             /\ result = "success"
             /\ enemies = <<>>
             /\ treasures = <<>>
             /\ \A i \in DOMAIN enemy : ~enemy[i].is_active

\* The replay is over and an enemy has caught the player meanwhile.
C3_Witness ==
    /\ frame_log.at_end /\ ~frame_log.hit_enemy
    /\ pc = "bravo_upd"
    /\ move_history # <<>>
    /\ HitsEnemy(player_pos)

\* C4: the pickups of a frame are applied whatever the frame then finds; a
\* frame that finds an enemy on the player ends the level as a failure, also
\* when the player is on the end position; no run ends both with the player
\* destroyed and with success.
C4_FrameOrder ==
    /\ frame_log.pos # None =>
         \A k \in 1..Len(treasures) :
            ~is_collision(frame_log.pos, treasures[k].pos)
    /\ frame_log.hit_enemy =>
         /\ pc = "returned"
         /\ result = "failure"
         /\ ~is_reverse_mode
         /\ player_pos = <<PARK, PARK>>
    /\ ~(result = "success" /\ player_pos = <<PARK, PARK>>)
    /\ result = "success" => ~frame_log.hit_enemy

\* A frame found the player on an enemy and on the end position at once.
C4_Witness ==
    /\ frame_log.hit_enemy
    /\ frame_log.at_end
    /\ result = "failure"


----------------------------------------------------------------------------
(* LevelEditor *)

GRID_ROWS == 20

GRID_COLS == 25

\* Python's round(v / 24) for an integer v: halves go to the even neighbour.
RoundDiv24(v) ==
    LET q == v \div 24
        r == v % 24
    IN IF r < 12 THEN q
       ELSE IF r > 12 THEN q + 1
       ELSE IF q % 2 = 0 THEN q ELSE q + 1

pixel_to_cell(pos_x, pos_y) == <<RoundDiv24(pos_x), RoundDiv24(pos_y)>>

cell_to_pixel(x, y) == <<24 * x, 24 * y>>

Abs(v) == IF v < 0 THEN -v ELSE v

\* Button.contains_point
contains_point(b, x, y) ==
    /\ b.x <= x /\ x <= b.x + b.width
    /\ b.y <= y /\ y <= b.y + b.height

play_button == [x |-> -600, y |-> -200, width |-> 120, height |-> 50]

clear_button == [x |-> -600, y |-> -300, width |-> 120, height |-> 50]

\* The palette symbol a click at height y selects ("none": no zone hit).
PaletteZone(y) ==
    IF 88 < y /\ y < 112 THEN "e"
    ELSE IF 188 < y /\ y < 212 THEN "t"
    ELSE IF 288 < y /\ y < 312 THEN "m"
    ELSE IF -12 < y /\ y < 12 THEN "s"
    ELSE IF -112 < y /\ y < -88 THEN "f"
    ELSE "none"

\* Mutant of HasItemAt: an item's x is compared with the click's y.
HasItemAt_swapped(placed, pixel) ==
    \E i \in 1..Len(placed) : placed[i][2] = pixel[2] /\ placed[i][3] = pixel[1]

HasItemAt(placed, pixel) ==
    \E i \in 1..Len(placed) : placed[i][2] = pixel[1] /\ placed[i][3] = pixel[2]

\* Mutant of HasType: only an end is looked for.
HasType_end_only(placed, t) ==
    t = "f" /\ \E i \in 1..Len(placed) : placed[i][1] = t

HasType(placed, t) == \E i \in 1..Len(placed) : placed[i][1] = t

\* Mutant of clear_all: the selection is dropped too.
clear_all_deselects(ed) == [ed EXCEPT !.placed = <<>>, !.selected = "none"]

\* LevelEditor.clear_all: the list is emptied, the palette and the buttons
\* are drawn again.
clear_all(ed) == [ed EXCEPT !.placed = <<>>]

\* LevelEditor.handle_click(x, y) on an editor with the given selection and
\* placement list: the action returned ("play", "clear" or "none"), the
\* selection and the list it leaves, and whether it showed a message and
\* which (each message is followed by a screen.update()).
handle_click(selected, placed, x, y) ==
    LET same == [action |-> "none", selected |-> selected, placed |-> placed,
                 msg |-> FALSE, text |-> "none"]
    IN IF contains_point(play_button, x, y)
       THEN [same EXCEPT !.action = "play"]
       ELSE IF contains_point(clear_button, x, y)
       THEN clear_all([same EXCEPT !.action = "clear"])
       ELSE IF -612 < x /\ x < -588
       THEN IF PaletteZone(y) # "none"
            THEN [same EXCEPT !.selected = PaletteZone(y)]
            ELSE same
       ELSE IF selected = "none" THEN same
       ELSE LET cell  == pixel_to_cell(x, y)
                pixel == cell_to_pixel(cell[1], cell[2])
            IN IF ~(Abs(cell[1]) < GRID_COLS \div 2 /\ Abs(cell[2]) < GRID_ROWS \div 2)
               THEN same
               ELSE IF HasItemAt(placed, pixel)
               THEN [same EXCEPT !.msg = TRUE, !.text = "stack"]
               ELSE IF selected = "s" /\ HasType(placed, "s")
               THEN [same EXCEPT !.msg = TRUE, !.text = "one start"]
               ELSE IF selected = "f" /\ HasType(placed, "f")
               THEN [same EXCEPT !.msg = TRUE, !.text = "one end"]
               ELSE [same EXCEPT !.placed =
                        Append(placed, <<selected, pixel[1], pixel[2]>>)]

\* The in-game symbol get_custom_level_layout writes for an item type.
LayoutSymbol(t) ==
    CASE t = "m" -> "X" [] t = "t" -> "T" [] t = "e" -> "E"
      [] t = "s" -> "S" [] t = "f" -> "F" [] OTHER -> "."

\* The 0-based <<row, col>> get_custom_level_layout computes for an item.
ItemRowCol(item) ==
    LET cell == pixel_to_cell(item[2], item[3])
    IN <<cell[2] + GRID_ROWS \div 2, cell[1] + GRID_COLS \div 2>>

InGrid(rc) ==
    /\ 0 <= rc[1] /\ rc[1] < GRID_ROWS
    /\ 0 <= rc[2] /\ rc[2] < GRID_COLS

\* The placement loop of get_custom_level_layout, lines 612-629: the grid
\* and the recorded start and end after the items were written in order.
RECURSIVE PlaceItems(_, _)
PlaceItems(placed, st) ==
    IF placed = <<>> THEN st
    ELSE LET item == Head(placed)
             rc   == ItemRowCol(item)
             sym  == LayoutSymbol(item[1])
             nx   == IF InGrid(rc) /\ sym # "."
                     THEN [grid |-> [st.grid EXCEPT ![rc[1]][rc[2]] = sym],
                           start_pos |-> IF item[1] = "s" THEN rc ELSE st.start_pos,
                           end_pos |-> IF item[1] = "f" THEN rc ELSE st.end_pos]
                     ELSE st
         IN PlaceItems(Tail(placed), nx)

\* The grid get_custom_level_layout starts from, line 605.
empty_grid == [r \in 0..(GRID_ROWS - 1) |-> [c \in 0..(GRID_COLS - 1) |-> "."]]

\* Mutant of add_perimeter: only the top and the bottom row are filled.
add_perimeter_rows_only(st) ==
    [r \in 1..GRID_ROWS |-> [c \in 1..GRID_COLS |->
        IF /\ r = 1 \/ r = GRID_ROWS
           /\ st.grid[r - 1][c - 1] = "."
           /\ (st.start_pos = None \/ <<r - 1, c - 1>> # st.start_pos)
           /\ (st.end_pos = None \/ <<r - 1, c - 1>> # st.end_pos)
        THEN "X" ELSE st.grid[r - 1][c - 1]]]

\* The perimeter loop of get_custom_level_layout, lines 631-646, and the
\* rows joined to strings: every empty border cell that is not the recorded
\* start or end becomes a wall.
add_perimeter(st) ==
    [r \in 1..GRID_ROWS |-> [c \in 1..GRID_COLS |->
        IF /\ r = 1 \/ r = GRID_ROWS \/ c = 1 \/ c = GRID_COLS
           /\ st.grid[r - 1][c - 1] = "."
           /\ (st.start_pos = None \/ <<r - 1, c - 1>> # st.start_pos)
           /\ (st.end_pos = None \/ <<r - 1, c - 1>> # st.end_pos)
        THEN "X" ELSE st.grid[r - 1][c - 1]]]

\* LevelEditor.get_custom_level_layout: the layout as rows of characters.
get_custom_level_layout(placed) ==
    add_perimeter(PlaceItems(placed, [grid |-> empty_grid, start_pos |-> None,
                                      end_pos |-> None]))

\* any(ch in row for row in layout)
LayoutHas(layout, ch) ==
    \E r \in 1..Len(layout) : \E c \in 1..Len(layout[r]) : layout[r][c] = ch


----------------------------------------------------------------------------
(* Game.run: the mode loop.                                                *)
(*                                                                         *)
(* stack holds the suspended callers of the code at pc, innermost last.    *)
(* A frame [k, at] names what resumes when the code at pc returns: a       *)
(* continuation of Game.run, or (at # "") the screen.update() a click      *)
(* handler was called from.  A handler that calls screen.update() itself   *)
(* is re-entered by the clicks that update delivers.                       *)

\* Bound: how deep click handlers that call screen.update() may nest.
MaxNest == 1

\* Game.levels as the mode loop plays it: three layouts small enough to be
\* played through move by move.  As in _create_levels the first two have an
\* auto_solution (and so an Auto button), the last has none (a Create
\* button).
PlayLevels == << TestLevels[2], TestLevels[3], TestLevels[1] >>

\* GameLevel of a level that was never set up.
NoLevel == [layout |-> <<>>, auto_solution |-> <<>>]

Frame(kind) == [k |-> kind, at |-> ""]

CallFrame(kind) == [k |-> kind, at |-> pc]

Top == stack[Len(stack)]

Popped == SubSeq(stack, 1, Len(stack) - 1)

InFrame(kind) == \E i \in 1..Len(stack) : stack[i].k = kind

\* The number of click handlers suspended in a screen.update() of their own.
NestDepth == Cardinality({i \in 1..Len(stack) : stack[i].at # ""})

(* The buttons of the screens *)

Button(bx, by, w, h) == [x |-> bx, y |-> by, width |-> w, height |-> h]

menu_play_button == Button(-150, 50, 300, 60)

menu_create_button == Button(-150, -30, 300, 60)

menu_select_button == Button(-150, -110, 300, 60)

menu_quit_button == Button(-150, -190, 300, 60)

\* show_level_select: the button of level i (0-based) and the back button.
level_btn(i) == Button(-200, 150 - (i * 80), 400, 60)

back_btn == Button(-200, 150 - (Len(PlayLevels) * 80), 400, 60)

return_btn == Button(-150, -150, 300, 60)

level_menu_button == Button(-600, 200, 120, 50)

\* The Auto button or, at the same place, the Create button.
level_auto_button == Button(-600, 100, 120, 50)

\* The points the model clicks: one inside every button (the last two also
\* hit the select button of the main menu), ...
NavPoints == { <<0, 80>>, <<0, 0>>, <<0, -60>>, <<0, -160>>, <<0, 160>>,
               <<0, -100>>, <<-540, 225>>, <<-540, 125>> }

\* ... and, in the editor: PLAY MAP, CLEAR ALL, the palette entries of the
\* start and of the end, and the two grid cells next to the top left corner
\* of the border (cells (-11, -9) and (-10, -9) of the editor).
EditorPoints == { <<-540, -175>>, <<-540, -275>>, <<-600, 0>>, <<-600, -100>>,
                  <<-264, -216>>, <<-240, -216>> }

ClickPoints == NavPoints \cup EditorPoints

(* Pieces of Game.run, each running up to the next screen.update() *)

\* setup_level(lv): a new Player, the parsed level, one timer per enemy, the
\* flags reset, the level's buttons and click handler.  A built-in level's
\* GameLevel object is set up again each time it is played; parsing the
\* same layout into the sets it already holds gives the same sets.  kept is
\* what the state keeps of lv.
SetupLevelAs(lv, kept) ==
    LET p == ParseLevel(lv.layout, {}, {}, None)
        n == Len(p.enemy_pos)
    IN /\ level' = kept
       /\ walls' = p.walls
       /\ treasure_positions' = p.treasure_positions
       /\ treasures' = p.treasures
       /\ enemies' = [i \in 1..n |-> i]
       /\ player_spawn' = p.player_spawn
       /\ end_pos' = p.end_pos
       /\ player_pos' = p.player_pos
       /\ gold' = 0
       /\ move_history' = <<>>
       /\ is_auto_mode' = FALSE
       /\ is_reverse_mode' = FALSE
       /\ \E hd \in [1..n -> Direction] :
            enemy' = [i \in 1..n |->
                        [pos |-> p.enemy_pos[i], current_direction |-> hd[i],
                         is_active |-> TRUE, timers |-> 1]]
       /\ auto_mode' = FALSE
       /\ create_mode' = FALSE
       /\ return_to_menu' = FALSE
       /\ onclick' = "level"
       /\ pc' = "setup_upd"
       /\ idx' = 0
       /\ replay' = <<>>
       /\ result' = "running"
       /\ move_ret' = FALSE
       /\ frame_log' = NoFrame

SetupLevel(lv) == SetupLevelAs(lv, lv)

\* The GameLevel of a custom level is a local of _play_custom_level; once
\* setup_level has parsed its layout, run_level reads its auto_solution (which
\* is empty) and nothing else: the state keeps it without the layout.
SetupCustomLevel(layout) ==
    SetupLevelAs([layout |-> layout, auto_solution |-> <<>>], NoLevel)

\* After run_level has returned nothing reads the Player, the entities or
\* the sets of the level any more (a key pressed later moves a hidden
\* turtle, a timer of a destroyed enemy does nothing), and the next
\* setup_level replaces them: the model forgets them.  It keeps the level
\* (its buttons stay in Game.buttons) and the value returned.
ForgetLevel ==
    /\ player_pos' = <<0, 0>>
    /\ gold' = 0
    /\ move_history' = <<>>
    /\ is_auto_mode' = FALSE
    /\ is_reverse_mode' = FALSE
    /\ walls' = {}
    /\ treasure_positions' = {}
    /\ treasures' = <<>>
    /\ enemies' = <<>>
    /\ player_spawn' = None
    /\ end_pos' = None
    /\ enemy' = <<>>
    /\ idx' = 0
    /\ replay' = <<>>
    /\ move_ret' = FALSE
    /\ frame_log' = NoFrame
    /\ UNCHANGED <<level, result>>

KeepLevel == UNCHANGED <<playerVars, levelVars, enemy, idx, replay, obsVars>>

\* Once a custom level is launched, or run_creator_mode has returned,
\* nothing reads the LevelEditor any more (its click handler has been
\* replaced, and the next run_creator_mode makes a new one): the model
\* forgets it.
ForgetEditor ==
    /\ selected_item' = "none"
    /\ placed_items' = <<>>
    /\ click_log' = NoClick

\* show_main_menu, up to its screen.update(); st is the stack it runs on.
show_main_menu(st) ==
    /\ onclick' = "menu"
    /\ pc' = "menu_upd"
    /\ stack' = st

\* run_creator_mode, up to its first screen.update(): a new LevelEditor.
run_creator_mode(st) ==
    /\ selected_item' = "none"
    /\ placed_items' = <<>>
    /\ click_log' = NoClick
    /\ onclick' = "editor"
    /\ pc' = "creator_upd"
    /\ stack' = st

\* Game.run from the test of its outer loop (1302) to the next
\* screen.update(), on stack st.
RunLoopTop(st) ==
    IF game_mode = "play"
    THEN IF current_level < Len(PlayLevels)
         THEN /\ SetupLevel(PlayLevels[current_level + 1])
              /\ stack' = Append(st, Frame("after_level"))
              /\ UNCHANGED <<game_mode, current_level, is_running, loaded, editorVars,
                             return_clicked>>
         ELSE \* lines 1340-1342
              /\ game_mode' = "none"
              /\ show_main_menu(Append(st, Frame("to_loop_upd")))
              /\ KeepLevel
              /\ UNCHANGED <<return_to_menu, create_mode, auto_mode,
                             current_level, is_running, loaded, editorVars,
                             return_clicked>>
    ELSE IF game_mode = "create"
    THEN /\ run_creator_mode(Append(st, Frame("after_creator")))
         /\ KeepLevel
         /\ UNCHANGED <<flagVars, current_level, is_running, loaded, return_clicked>>
    ELSE IF game_mode = "select"
    THEN \* show_level_select, up to its screen.update()
         /\ onclick' = "select"
         /\ pc' = "select_upd"
         /\ stack' = st
         /\ KeepLevel
         /\ UNCHANGED <<flagVars, current_level, is_running, loaded, editorVars,
                        return_clicked>>
    ELSE /\ pc' = "loop_upd"
         /\ stack' = st
         /\ KeepLevel
         /\ UNCHANGED <<flagVars, current_level, is_running, loaded, onclick,
                        editorVars, return_clicked>>

\* Lines 1340-1353, reached by a break out of the level loop.
AfterBreak(st) ==
    IF game_mode = "play" /\ current_level >= Len(PlayLevels)
    THEN /\ game_mode' = "none"
         /\ show_main_menu(Append(st, Frame("to_loop_upd")))
         /\ UNCHANGED <<current_level>>
    ELSE /\ pc' = "loop_upd"
         /\ stack' = st
         /\ UNCHANGED <<game_mode, current_level, onclick>>

InitMode ==
    /\ player_pos = <<0, 0>>
    /\ gold = 0
    /\ move_history = <<>>
    /\ is_auto_mode = FALSE
    /\ is_reverse_mode = FALSE
    /\ return_to_menu = FALSE
    /\ create_mode = FALSE
    /\ auto_mode = FALSE
    /\ game_mode = "none"
    /\ level = NoLevel
    /\ walls = {}
    /\ treasure_positions = {}
    /\ treasures = <<>>
    /\ enemies = <<>>
    /\ player_spawn = None
    /\ end_pos = None
    /\ enemy = <<>>
    /\ pc = "menu_upd"
    /\ idx = 0
    /\ replay = <<>>
    /\ result = "none"
    /\ move_ret = FALSE
    /\ frame_log = NoFrame
    /\ stack = <<Frame("run_start")>>
    /\ current_level = 0
    /\ is_running = TRUE
    /\ loaded = NotLoaded
    /\ onclick = "menu"
    /\ selected_item = "none"
    /\ placed_items = <<>>
    /\ click_log = NoClick
    /\ return_clicked = FALSE


(* The click handlers *)

\* Mutant of menu_on_click: PLAY LEVELS leaves the level index alone.
menu_on_click_keeps_level(gm, cl, x, y) ==
    IF contains_point(menu_play_button, x, y)
    THEN [game_mode |-> "play", current_level |-> cl, closed |-> FALSE]
    ELSE IF contains_point(menu_create_button, x, y)
    THEN [game_mode |-> "create", current_level |-> cl, closed |-> FALSE]
    ELSE IF contains_point(menu_select_button, x, y)
    THEN [game_mode |-> "select", current_level |-> cl, closed |-> FALSE]
    ELSE IF contains_point(menu_quit_button, x, y)
    THEN [game_mode |-> gm, current_level |-> cl, closed |-> TRUE]
    ELSE [game_mode |-> gm, current_level |-> cl, closed |-> FALSE]

\* show_main_menu.on_click: the game mode and level index it leaves, and
\* whether it closed the game (_on_close).
menu_on_click(gm, cl, x, y) ==
    IF contains_point(menu_play_button, x, y)
    THEN [game_mode |-> "play", current_level |-> 0, closed |-> FALSE]
    ELSE IF contains_point(menu_create_button, x, y)
    THEN [game_mode |-> "create", current_level |-> cl, closed |-> FALSE]
    ELSE IF contains_point(menu_select_button, x, y)
    THEN [game_mode |-> "select", current_level |-> cl, closed |-> FALSE]
    ELSE IF contains_point(menu_quit_button, x, y)
    THEN [game_mode |-> gm, current_level |-> cl, closed |-> TRUE]
    ELSE [game_mode |-> gm, current_level |-> cl, closed |-> FALSE]

\* A click while the handler of the main menu is bound.  _on_close ends the
\* process (os._exit).
MenuClick(x, y) ==
    LET r == menu_on_click(game_mode, current_level, x, y)
    IN /\ IF r.closed
          THEN /\ is_running' = FALSE
               /\ UNCHANGED loaded
               /\ pc' = "exited"
               /\ stack' = <<>>
               /\ UNCHANGED <<game_mode, current_level>>
          ELSE /\ game_mode' = r.game_mode
               /\ current_level' = r.current_level
               /\ UNCHANGED <<is_running, loaded, pc, stack>>
       /\ KeepLevel
       /\ UNCHANGED <<return_to_menu, create_mode, auto_mode, onclick,
                      editorVars, return_clicked>>

\* Mutant of select_on_click: BACK TO MENU shows the menu but leaves the game
\* mode alone.
select_on_click_back_keeps_mode(x, y) ==
    LET hit == {i \in 0..(Len(PlayLevels) - 1) : contains_point(level_btn(i), x, y)}
    IN /\ IF hit # {}
          THEN /\ current_level' = CHOOSE i \in hit : \A j \in hit : i <= j
               /\ game_mode' = "play"
               /\ UNCHANGED <<pc, stack, onclick>>
          ELSE IF contains_point(back_btn, x, y)
          THEN /\ show_main_menu(Append(stack, CallFrame("cb")))
               /\ UNCHANGED <<current_level, game_mode>>
          ELSE UNCHANGED <<current_level, game_mode, pc, stack, onclick>>
       /\ KeepLevel
       /\ UNCHANGED <<return_to_menu, create_mode, auto_mode, is_running, loaded,
                      editorVars, return_clicked>>

\* show_level_select.on_click: the first level button under the click
\* chooses that level; BACK TO MENU calls show_main_menu from the handler.
select_on_click(x, y) ==
    LET hit == {i \in 0..(Len(PlayLevels) - 1) : contains_point(level_btn(i), x, y)}
    IN /\ IF hit # {}
          THEN /\ current_level' = CHOOSE i \in hit : \A j \in hit : i <= j
               /\ game_mode' = "play"
               /\ UNCHANGED <<pc, stack, onclick>>
          ELSE IF contains_point(back_btn, x, y)
          THEN /\ game_mode' = "none"
               /\ show_main_menu(Append(stack, CallFrame("cb")))
               /\ UNCHANGED current_level
          ELSE UNCHANGED <<current_level, game_mode, pc, stack, onclick>>
       /\ KeepLevel
       /\ UNCHANGED <<return_to_menu, create_mode, auto_mode, is_running, loaded,
                      editorVars, return_clicked>>

\* _show_victory_screen.on_click
victory_on_click(x, y) ==
    /\ IF contains_point(return_btn, x, y)
       THEN return_clicked' = TRUE /\ game_mode' = "none"
       ELSE UNCHANGED <<return_clicked, game_mode>>
    /\ KeepLevel
    /\ UNCHANGED <<return_to_menu, create_mode, auto_mode, pc, stack,
                   current_level, is_running, loaded, onclick, editorVars>>

\* The button of the level screen under a click.
LevelButtonAt(x, y) ==
    IF contains_point(level_menu_button, x, y) THEN "menu"
    ELSE IF contains_point(level_auto_button, x, y)
    THEN (IF HasAuto THEN "auto" ELSE "create")
    ELSE "none"

\* Mutant of play_custom_valid: only the start is required.
play_custom_valid_start_only(layout) == LayoutHas(layout, "S")

\* Mutant of play_custom_valid: only the end is required.
play_custom_valid_end_only(layout) == LayoutHas(layout, "F")

\* _play_custom_level, lines 1231-1234: has_start and has_end.
play_custom_valid(layout) == LayoutHas(layout, "S") /\ LayoutHas(layout, "F")

\* run_creator_mode.handle_editor_click.  PLAY MAP calls _play_custom_level,
\* which shows an error (two updates) or runs the custom level from inside
\* the handler; any other click ends with the handler's own screen.update(),
\* after the update of a message if handle_click showed one.
handle_editor_click(x, y) ==
    /\ <<x, y>> \in EditorPoints
    /\ NestDepth < MaxNest
    /\ LET r      == handle_click(selected_item, placed_items, x, y)
           layout == get_custom_level_layout(placed_items)
       IN IF r.action = "play"
          THEN IF play_custom_valid(layout)
               THEN /\ SetupCustomLevel(layout)
                    /\ stack' = Append(stack, CallFrame("after_custom"))
                    /\ ForgetEditor
                    /\ UNCHANGED <<game_mode, current_level, is_running, loaded,
                                   return_clicked>>
               ELSE /\ pc' = "custom_err_upd1"
                    /\ stack' = Append(stack, CallFrame("custom_err"))
                    /\ KeepLevel
                    /\ UNCHANGED <<flagVars, current_level, is_running, loaded,
                                   onclick, editorVars, return_clicked>>
          ELSE /\ selected_item' = r.selected
               /\ placed_items' = r.placed
               /\ UNCHANGED click_log
               /\ pc' = IF r.msg THEN "msg_upd" ELSE "editor_click_upd"
               /\ stack' = Append(stack, CallFrame("editor_cb"))
               /\ KeepLevel
               /\ UNCHANGED <<flagVars, current_level, is_running, loaded, onclick,
                              return_clicked>>

\* A mouse click, delivered to the handler bound by the last screen.onclick.
Click(x, y) ==
    /\ AtAnyUpdate
    /\ CASE onclick = "menu"    -> MenuClick(x, y)
         [] onclick = "select"  -> select_on_click(x, y)
         [] onclick = "level"   -> handle_button_click(LevelButtonAt(x, y))
         [] onclick = "editor"  -> handle_editor_click(x, y)
         [] onclick = "victory" -> victory_on_click(x, y)

(* Game.run resumes when a screen.update() returns *)

\* Mutant of after_run_level: success is looked at before the menu flag.
after_run_level_success_first(rtm, gm, success, cl) ==
    IF success
    THEN (IF cl + 1 >= Len(PlayLevels) THEN "victory" ELSE "next")
    ELSE IF rtm THEN "menu"
    ELSE IF gm = "create" THEN "create"
    ELSE "failed"

\* Mutant of after_run_level: the create branch is missing.
after_run_level_no_create(rtm, gm, success, cl) ==
    IF rtm THEN "menu"
    ELSE IF success
    THEN (IF cl + 1 >= Len(PlayLevels) THEN "victory" ELSE "next")
    ELSE "failed"

\* Game.run, lines 1313-1338: which branch follows run_level, given the
\* menu flag, the game mode, the value returned and the level index.
after_run_level(rtm, gm, success, cl) ==
    IF rtm THEN "menu"
    ELSE IF gm = "create" THEN "create"
    ELSE IF success
    THEN (IF cl + 1 >= Len(PlayLevels) THEN "victory" ELSE "next")
    ELSE "failed"

\* run_level has returned: to Game.run (line 1308) or to _play_custom_level
\* (line 1250), which resets the game mode and returns to the update that
\* delivered the click.
LevelReturn ==
    /\ pc = "returned"
    /\ stack # <<>>
    /\ IF Top.k = "after_custom"
       THEN /\ game_mode' = "none"
            /\ pc' = Top.at
            /\ stack' = Popped
            /\ ForgetLevel
            /\ UNCHANGED <<return_to_menu, create_mode, auto_mode,
                           current_level, is_running, loaded, onclick, editorVars,
                           return_clicked>>
       ELSE LET o == after_run_level(return_to_menu, game_mode,
                                     result = "success", current_level)
            IN CASE o = "menu" ->
                      /\ return_to_menu' = FALSE
                      /\ game_mode' = "none"
                      /\ show_main_menu(Append(Popped, Frame("to_break")))
                      /\ ForgetLevel
                      /\ UNCHANGED <<create_mode, auto_mode, current_level,
                                     is_running, loaded, editorVars, return_clicked>>
                 [] o = "create" ->
                      /\ create_mode' = FALSE
                      /\ run_creator_mode(Append(Popped,
                                                 Frame("after_creator_play")))
                      /\ ForgetLevel
                      /\ UNCHANGED <<return_to_menu, auto_mode, game_mode,
                                     current_level, is_running, loaded,
                                     return_clicked>>
                 [] o = "victory" ->
                      \* _show_victory_screen, up to its screen.update()
                      /\ current_level' = current_level + 1
                      /\ pc' = "victory_upd"
                      /\ stack' = Append(Popped, Frame("victory_end"))
                      /\ ForgetLevel
                      /\ UNCHANGED <<flagVars, is_running, loaded, onclick,
                                     editorVars, return_clicked>>
                 [] o = "next" ->
                      /\ current_level' = current_level + 1
                      /\ SetupLevel(PlayLevels[current_level + 2])
                      /\ UNCHANGED <<game_mode, stack, is_running, loaded, editorVars,
                                     return_clicked>>
                 [] o = "failed" ->
                      /\ game_mode' = "none"
                      /\ show_main_menu(Append(Popped, Frame("to_break")))
                      /\ ForgetLevel
                      /\ UNCHANGED <<return_to_menu, create_mode, auto_mode,
                                     current_level, is_running, loaded, editorVars,
                                     return_clicked>>

\* The screen.update() of show_main_menu has returned, and so does
\* show_main_menu, to the caller the top frame names.
MenuContinue ==
    /\ pc = "menu_upd"
    /\ CASE Top.k = "run_start" ->
              RunLoopTop(Popped)
         [] Top.k = "to_break" ->
              /\ AfterBreak(Popped)
              /\ KeepLevel
              /\ UNCHANGED <<return_to_menu, create_mode, auto_mode,
                             is_running, loaded, editorVars, return_clicked>>
         [] Top.k = "to_loop_upd" ->
              /\ pc' = "loop_upd"
              /\ stack' = Popped
              /\ KeepLevel
              /\ UNCHANGED <<flagVars, current_level, is_running, loaded, onclick,
                             editorVars, return_clicked>>
         [] Top.k = "victory_end" ->
              \* lines 1330-1332
              /\ game_mode' = "none"
              /\ current_level' = 0
              /\ show_main_menu(Append(Popped, Frame("to_break")))
              /\ KeepLevel
              /\ UNCHANGED <<return_to_menu, create_mode, auto_mode,
                             is_running, loaded, editorVars, return_clicked>>
         [] Top.k = "cb" ->
              \* the handler of the level selection returns
              /\ pc' = Top.at
              /\ stack' = Popped
              /\ KeepLevel
              /\ UNCHANGED <<flagVars, current_level, is_running, loaded, onclick,
                             editorVars, return_clicked>>

\* The screen.update() of Game.run (1353) has returned.
LoopContinue ==
    /\ pc = "loop_upd"
    /\ RunLoopTop(stack)

\* The screen.update() of show_level_select has returned: line 1352.
SelectContinue ==
    /\ pc = "select_upd"
    /\ pc' = "loop_upd"
    /\ KeepLevel
    /\ UNCHANGED <<flagVars, stack, current_level, is_running, loaded, onclick,
                   editorVars, return_clicked>>

\* A screen.update() of run_creator_mode has returned: the wait loops go on
\* (to the update of line 1181 or 1190) while the game mode is 'create'; then
\* Game.run resets the mode and shows the main menu (1322-1324 or 1346-1347).
CreatorContinue ==
    /\ pc \in {"creator_upd", "creator_wait2"}
    /\ IF game_mode = "create"
       THEN UNCHANGED <<pc, stack, game_mode, onclick, editorVars>>
       ELSE /\ game_mode' = "none"
            /\ show_main_menu(Append(Popped,
                   Frame(IF Top.k = "after_creator" THEN "to_loop_upd"
                                                    ELSE "to_break")))
            /\ ForgetEditor
    /\ KeepLevel
    /\ UNCHANGED <<return_to_menu, create_mode, auto_mode, current_level,
                   is_running, loaded, return_clicked>>

\* A screen.update() of _show_victory_screen has returned: after the first
\* the handler is bound and the wait loop is tested (1410-1421); the loop
\* goes on while the game mode is None; then show_main_menu (1429).
VictoryContinue ==
    /\ pc \in {"victory_upd", "victory_wait"}
    /\ IF game_mode = "none"
       THEN /\ pc' = "victory_wait"
            /\ onclick' = "victory"
            /\ UNCHANGED stack
       ELSE show_main_menu(stack)
    /\ KeepLevel
    /\ UNCHANGED <<flagVars, current_level, is_running, loaded, editorVars,
                   return_clicked>>

\* A screen.update() made by the editor's click handler has returned: after
\* a message the handler goes on to its own update (1171), after the first
\* error update to the second (1246); otherwise the handler returns.
CallbackContinue ==
    /\ pc \in {"editor_click_upd", "msg_upd", "custom_err_upd1",
               "custom_err_upd2"}
    /\ IF pc = "msg_upd"
       THEN pc' = "editor_click_upd" /\ UNCHANGED stack
       ELSE IF pc = "custom_err_upd1"
       THEN pc' = "custom_err_upd2" /\ UNCHANGED stack
       ELSE pc' = Top.at /\ stack' = Popped
    /\ KeepLevel
    /\ UNCHANGED <<flagVars, current_level, is_running, loaded, onclick, editorVars,
                   return_clicked>>

NextMode ==
    \/ \E d \in Direction : KeyPress(d)
    \/ \E i \in DOMAIN enemy : EnemyTick(i)
    \/ \E pt \in ClickPoints : Click(pt[1], pt[2])
    \/ LoopHead
    \/ AutoStep
    \/ AutoFinish
    \/ PostAuto
    \/ ReplayStep
    \/ ReplayFinish
    \/ BravoDone
    \/ LevelReturn
    \/ MenuContinue
    \/ LoopContinue
    \/ SelectContinue
    \/ CreatorContinue
    \/ VictoryContinue
    \/ CallbackContinue

SpecMode == InitMode /\ [][NextMode]_vars


----------------------------------------------------------------------------
(* Properties of the mode loop (checked under SpecMode) *)

\* The mode of the specification, read off the program's state: Victory
\* while _show_victory_screen runs, Play / PlayCustom while run_level runs
\* for a built-in / custom level, Create while run_creator_mode runs with
\* the game mode 'create', Select while the handler of the level selection
\* is bound, Menu otherwise.
Mode ==
    IF pc \in {"exited", "run_returned"} THEN "Exited"
    ELSE IF InFrame("victory_end") THEN "Victory"
    ELSE IF InFrame("after_custom") THEN "PlayCustom"
    ELSE IF InFrame("after_level") THEN "Play"
    ELSE IF /\ InFrame("after_creator") \/ InFrame("after_creator_play")
            /\ game_mode = "create"
    THEN "Create"
    ELSE IF onclick = "select" THEN "Select"
    ELSE "Menu"

\* run_level has just returned to Game.run.
LevelEnded == pc = "returned" /\ stack # <<>> /\ Top.k = "after_level"

\* The level is torn down: no live entity, every enemy stopped.
TornDown ==
    /\ enemies = <<>>
    /\ treasures = <<>>
    /\ \A i \in DOMAIN enemy : ~enemy[i].is_active

\* The step is a click on the button b of the bound handler h.
ClickOn(h, b) ==
    /\ onclick = h
    /\ \E pt \in ClickPoints :
         contains_point(b, pt[1], pt[2]) /\ Click(pt[1], pt[2])

C6_FailureToMenu ==
    [][/\ (LevelEnded /\ (frame_log.hit_enemy \/ return_to_menu)) =>
            /\ TornDown
            /\ Mode' = "Menu"
            /\ game_mode' = "none"
       /\ (Mode \in {"Menu", "Select"} /\ pc' = "setup_upd") =>
            game_mode = "play"
       /\ (Mode \in {"Menu", "Select"} /\ game_mode # "play"
              /\ game_mode' = "play") =>
            \/ ClickOn("menu", menu_play_button)
            \/ \E i \in 0..(Len(PlayLevels) - 1) : ClickOn("select", level_btn(i))]_vars

\* The first level (which has an enemy) has ended as a failure and the main
\* menu is shown.
C6_Witness ==
    /\ Mode = "Menu"
    /\ pc = "menu_upd"
    /\ result = "failure"
    /\ level = PlayLevels[1]
    /\ game_mode = "none"
    /\ Top.k = "to_break"

\* C7: in Menu a click on PLAY LEVELS sets the game mode 'play' and the
\* level index 0, whatever the index was; when the main loop next looks at
\* the game mode, Menu is followed by PlayLevel(0), Create or Select as the
\* game mode says and stays Menu if no action set one; Menu is left in no
\* other way (but by Quit).
C7_MenuActions ==
    [][/\ (Mode = "Menu" /\ ClickOn("menu", menu_play_button)) =>
            game_mode' = "play" /\ current_level' = 0
       /\ (Mode = "Menu" /\ ClickOn("menu", menu_create_button)) =>
            game_mode' = "create"
       /\ (Mode = "Menu" /\ ClickOn("menu", menu_select_button)) =>
            game_mode' = "select"
       /\ (Mode = "Menu" /\ (LoopContinue \/ (MenuContinue /\ Top.k = "run_start"))) =>
            Mode' = CASE game_mode = "play" -> "Play"
                      [] game_mode = "create" -> "Create"
                      [] game_mode = "select" -> "Select"
                      [] OTHER -> "Menu"
       /\ (Mode = "Menu" /\ Mode' = "Play") =>
            /\ current_level = 0
            /\ level' = PlayLevels[1]
            /\ pc' = "setup_upd"
       /\ (Mode = "Menu" /\ Mode' # "Menu") =>
            \/ game_mode = "play" /\ Mode' = "Play"
            \/ game_mode = "create" /\ Mode' = "Create"
            \/ game_mode = "select" /\ Mode' = "Select"
            \/ Mode' = "Exited"]_vars

\* The last level was played and failed, and PLAY LEVELS has been clicked in
\* the main menu.
C7_Witness ==
    /\ Mode = "Menu"
    /\ game_mode = "play"
    /\ current_level = 0
    /\ level = PlayLevels[3]
    /\ result = "failure"

\* C8: while the game runs, Victory is left only by an acknowledgement (a
\* click on the return button, handled by the victory screen's handler), and
\* then for Menu.
C8_VictoryAcknowledged ==
    [][(Mode = "Victory" /\ Mode' \notin {"Victory", "Exited"}) =>
          (return_clicked' /\ Mode' = "Menu")]_vars

\* C9: Create is left only by the launch of a custom level, which is the
\* parse of the layout of the placed items, a layout with a start and an
\* end; the nested play is left only by run_level's return, and then for
\* Menu with no game mode pending; and while run_creator_mode winds up the
\* mode stays Menu.
C9_CreateThenMenu ==
    [][/\ Mode = "Create" => Mode' \in {"Create", "PlayCustom"}
       /\ (Mode = "Create" /\ Mode' = "PlayCustom") =>
            LET layout == get_custom_level_layout(placed_items)
                p      == ParseLevel(layout, {}, {}, None)
            IN /\ LayoutHas(layout, "S")
               /\ LayoutHas(layout, "F")
               /\ walls' = p.walls
               /\ player_spawn' = p.player_spawn
               /\ player_pos' = p.player_pos
               /\ end_pos' = p.end_pos
               /\ pc' = "setup_upd"
               /\ ClickOn("editor", play_button)
       /\ Mode = "PlayCustom" => Mode' \in {"PlayCustom", "Menu"}
       /\ (Mode = "PlayCustom" /\ Mode' = "Menu") =>
            pc = "returned" /\ game_mode' = "none"
       /\ (Mode = "Menu" /\ (InFrame("after_creator") \/ InFrame("after_creator_play"))) =>
            Mode' = "Menu"]_vars

\* A custom level was played to its end and run_creator_mode is about to
\* return to the main menu.
C9_Witness ==
    /\ Mode = "Menu"
    /\ InFrame("after_creator")
    /\ pc = "creator_upd"
    /\ level = NoLevel
    /\ result = "success"
    /\ game_mode = "none"

\* C10 (as stated): when the Create action is taken while a built-in level
\* is being played, the next mode is Create.
C10_CreateAlwaysWins ==
    [][(Mode = "Play" /\ create_mode /\ Mode' # "Play") =>
          Mode' = "Create"]_vars

\* C10 (amended): when the Create action was taken while a built-in level
\* is being played, the level loop leaves at its next poll with the game
\* mode 'create' unless the Menu action was taken too; the level is torn
\* down and the next mode is Menu if the Menu action was taken, Victory if
\* the Create action came during the victory replay (of the last level, the
\* only one with a Create button), and Create otherwise.
C10_CreateFromLevel ==
    [][/\ (Mode = "Play" /\ create_mode /\ ~return_to_menu /\ LoopHead) =>
            pc' = "returned" /\ game_mode' = "create"
       /\ (Mode = "Play" /\ create_mode /\ Mode' # "Play") =>
            /\ TornDown
            /\ current_level = Len(PlayLevels) - 1
            /\ Mode' = IF return_to_menu THEN "Menu"
                       ELSE IF result = "success" THEN "Victory"
                       ELSE "Create"]_vars

\* The Create button of the last level was clicked and the creator is open.
C10_Witness ==
    /\ Mode = "Create"
    /\ InFrame("after_creator_play")
    /\ pc = "creator_upd"
    /\ level = PlayLevels[3]
    /\ result = "failure"

\* C11: in Select a click on the button of level i sets the game mode 'play'
\* and the level index i, for every built-in index i, and a click on BACK TO
\* MENU leads to Menu with no game mode pending; Select is left only so: for
\* a level (when the main loop next looks at the game mode, and then for the
\* level of the index chosen last) or, by Back, for Menu; with no click the
\* mode stays Select.
C11_SelectActions ==
    [][/\ \A i \in 0..(Len(PlayLevels) - 1) :
            (Mode = "Select" /\ ClickOn("select", level_btn(i))) =>
               game_mode' = "play" /\ current_level' = i /\ Mode' = "Select"
       /\ (Mode = "Select" /\ ClickOn("select", back_btn)) =>
            Mode' = "Menu" /\ game_mode' = "none"
       /\ (Mode = "Select" /\ Mode' = "Play") =>
            /\ game_mode = "play"
            /\ LoopContinue
            /\ current_level' = current_level
            /\ level' = PlayLevels[current_level + 1]
            /\ pc' = "setup_upd"
       /\ (Mode = "Select" /\ Mode' = "Menu") => ClickOn("select", back_btn)
       /\ Mode = "Select" => Mode' \in {"Select", "Play", "Menu"}
       /\ (Mode = "Select" /\ ~(\E pt \in ClickPoints : Click(pt[1], pt[2]))) =>
            \/ Mode' = "Select"
            \/ game_mode = "play" /\ Mode' = "Play"]_vars

\* The last level was chosen in the level selection and the main loop is
\* about to look at the game mode.
C11_Witness ==
    /\ Mode = "Select"
    /\ pc = "loop_upd"
    /\ game_mode = "play"
    /\ current_level = Len(PlayLevels) - 1
    /\ level = NoLevel

----------------------------------------------------------------------------
(* Failures: a screen.update() raises an exception (other than             *)
(* turtle.Terminator, which a closed window raises).  An exception that    *)
(* leaves a click handler is caught by Tkinter, which reports it and lets  *)
(* the update that delivered the click go on.                              *)

\* The except clause of Game.run's loop, lines 1359-1367, up to the
\* screen.update() of its show_main_menu; st is the stack of Game.run.  A
\* failure of that show_main_menu ends run, as one of the first (line 1300)
\* does, and after it the loop goes on at its head: the frame is the one
\* of the first.
except_in_run(st) ==
    /\ game_mode' = "none"
    /\ show_main_menu(Append(st, Frame("run_start")))

\* A failure in run_level's loop: the except clause of lines 1115-1117.
FailInLevel ==
    /\ pc \in UpdatePcs \ {"setup_upd"}
    /\ Cleanup
    /\ result' = "failure"
    /\ pc' = "returned"
    /\ UNCHANGED <<playerVars, flagVars, game_mode, idx, replay, move_ret,
                   frame_log, modeVars>>

\* A failure of the screen.update() of setup_level (995), which run_level
\* calls outside its try block (1036): it reaches the except clause of
\* Game.run or, for a custom level, that of handle_editor_click (1172); no
\* _cleanup_level runs, and the level's handler stays bound.  The modes do
\* not depend on the level's entities, which are forgotten here (a built-in
\* level would keep them in its lists until it is set up again).
FailInSetup ==
    /\ pc = "setup_upd"
    /\ IF Top.k = "after_custom"
       THEN /\ pc' = Top.at
            /\ stack' = Popped
            /\ UNCHANGED <<game_mode, onclick>>
       ELSE except_in_run(Popped)
    /\ ForgetLevel
    /\ UNCHANGED <<flagVars, current_level, is_running, loaded, editorVars,
                   return_clicked>>

\* A failure of the screen.update() of show_main_menu (880): it ends run if
\* the menu was shown by line 1300 or by the except clause (1365), reaches
\* the except clause if the menu was shown inside the loop or by
\* _show_victory_screen, and is lost if the menu was shown by the handler of
\* the level selection.
FailInMenu ==
    /\ pc = "menu_upd"
    /\ CASE Top.k = "run_start" ->
              \* lines 1372-1374 or 1366-1368: run returns, main ends
              /\ is_running' = FALSE
              /\ UNCHANGED loaded
              /\ pc' = "run_returned"
              /\ stack' = <<>>
              /\ UNCHANGED <<game_mode, onclick>>
         [] Top.k \in {"to_break", "to_loop_upd", "victory_end"} ->
              /\ except_in_run(Popped)
              /\ UNCHANGED <<is_running, loaded>>
         [] Top.k = "cb" ->
              /\ pc' = Top.at
              /\ stack' = Popped
              /\ UNCHANGED <<game_mode, onclick, is_running, loaded>>
    /\ KeepLevel
    /\ UNCHANGED <<flagVars, current_level, editorVars, return_clicked>>

\* A failure of the screen.update() of Game.run (1353), of show_level_select
\* (1295) or of the first update of _show_victory_screen (1409): the except
\* clause of Game.run.  (The update of the wait loop of _show_victory_screen
\* is never reached: the loop is entered with the game mode 'play'.)
FailInLoop ==
    /\ pc \in {"loop_upd", "select_upd", "victory_upd"}
    /\ except_in_run(IF pc = "victory_upd" THEN Popped ELSE stack)
    /\ KeepLevel
    /\ UNCHANGED <<flagVars, current_level, is_running, loaded, editorVars,
                   return_clicked>>

\* run_creator_mode returns (to line 1322 or 1346): the mode is reset and
\* the main menu shown.
creator_return ==
    /\ game_mode' = "none"
    /\ show_main_menu(Append(Popped,
           Frame(IF Top.k = "after_creator" THEN "to_loop_upd" ELSE "to_break")))
    /\ ForgetEditor

\* A failure of a screen.update() of run_creator_mode.  That of line 1176
\* reaches the except clause of Game.run; one in the first wait loop breaks
\* out of it (1183) into the second wait loop, which goes on while the game
\* mode is 'create'; one in the second wait loop breaks out of it (1191) and
\* run_creator_mode returns.
FailInCreator ==
    /\ \/ /\ pc = "creator_upd"
          /\ \/ /\ except_in_run(Popped)
                /\ ForgetEditor
             \/ IF game_mode = "create"
                THEN /\ pc' = "creator_wait2"
                     /\ UNCHANGED <<stack, game_mode, onclick, editorVars>>
                ELSE creator_return
       \/ /\ pc = "creator_wait2"
          /\ creator_return
    /\ KeepLevel
    /\ UNCHANGED <<flagVars, current_level, is_running, loaded, return_clicked>>

\* A failure of a screen.update() made from the editor's click handler: one
\* of a message is caught by handle_click (539, 557, 574), and the handler
\* goes on to its own update; any other by handle_editor_click (1172), and
\* the handler returns.
FailInEditorClick ==
    /\ pc \in {"editor_click_upd", "msg_upd", "custom_err_upd1",
               "custom_err_upd2"}
    /\ IF pc = "msg_upd"
       THEN pc' = "editor_click_upd" /\ UNCHANGED stack
       ELSE pc' = Top.at /\ stack' = Popped
    /\ KeepLevel
    /\ UNCHANGED <<flagVars, game_mode, current_level, is_running, loaded, onclick,
                   editorVars, return_clicked>>

Fail ==
    \/ FailInLevel
    \/ FailInSetup
    \/ FailInMenu
    \/ FailInLoop
    \/ FailInCreator
    \/ FailInEditorClick

NextFail == NextMode \/ Fail

SpecFail == InitMode /\ [][NextFail]_vars

----------------------------------------------------------------------------
(* Properties of the failure handling (checked under SpecFail) *)

\* C12 (as stated): a failure raised in any mode is caught, forces the mode
\* to Menu and leaves the top-level loop running; the loop ends only by the
\* shutdown (a click on QUIT).
C12_FailureForcesMenu ==
    [][/\ Fail => (Mode' = "Menu" /\ is_running')
       /\ (Mode # "Exited" /\ Mode' = "Exited") =>
            ClickOn("menu", menu_quit_button)]_vars

----------------------------------------------------------------------------
(* Properties of the enemies (checked under Spec) *)

\* The chase heading as the specification gives it, for an enemy at epos and
\* a player at ppos: the x coordinates are compared first; "none" if the two
\* are on the same cell.
ChaseTo(epos, ppos) ==
    IF ppos[1] < epos[1] THEN "LEFT"
    ELSE IF ppos[1] > epos[1] THEN "RIGHT"
    ELSE IF ppos[2] < epos[2] THEN "DOWN"
    ELSE IF ppos[2] > epos[2] THEN "UP"
    ELSE "none"

\* The cell is one an enemy does not step on.
Blocked(pos) == pos \in walls \/ pos \in treasure_positions

\* The enemy e1 is what a tick in heading h makes of the enemy e: one step
\* ahead with that heading if the cell ahead is free, else it stays where it
\* is (with a heading drawn at random); its timer is set again.
SteppedIn(e, e1, h) ==
    /\ e1.is_active
    /\ e1.timers = e.timers
    /\ IF Blocked(Step(e.pos, h))
       THEN e1.pos = e.pos /\ e1.current_direction \in Direction
       ELSE e1.pos = Step(e.pos, h) /\ e1.current_direction = h

\* The step is a tick of the active enemy i with the player inside the
\* detection radius.
ChaseTick(i) ==
    /\ EnemyTick(i)
    /\ enemy[i].is_active
    /\ is_close_to_player(enemy[i], player_pos)

\* C13 (as stated): on a tick of an active enemy with the player inside the
\* detection radius, the heading is Left, Right, Down or Up as the player's
\* coordinates say, and the heading the enemy had before plays no part: what
\* the tick makes of the enemy can be made of it with any other heading.
C13_HeadingPlaysNoPart ==
    [][\A i \in DOMAIN enemy :
         ChaseTick(i) =>
            \A d \in Direction :
               \E rnd \in Direction :
                  enemy'[i] = EnemyMove([enemy[i] EXCEPT !.current_direction = d],
                                        player_pos, rnd)]_vars

\* C13 (amended): on such a tick the enemy steps in the heading Left if
\* player.x < enemy.x, Right if player.x > enemy.x, and for equal x Down if
\* player.y < enemy.y and Up if player.y > enemy.y, whatever heading it had;
\* if the player is on the enemy's own cell it steps in the heading it had.
C13_ChaseHeading ==
    [][\A i \in DOMAIN enemy :
         ChaseTick(i) =>
            LET h == ChaseTo(enemy[i].pos, player_pos)
            IN IF h = "none"
               THEN SteppedIn(enemy[i], enemy'[i], enemy[i].current_direction)
               ELSE SteppedIn(enemy[i], enemy'[i], h)]_vars

\* In the yard the enemy has come down onto the player's cell, one row below
\* the row it started in: it closed in along x first and then along y.
C13_Witness ==
    /\ level = TestLevels[4]
    /\ \E i \in DOMAIN enemy :
         /\ enemy[i].is_active
         /\ enemy[i].pos = player_pos
         /\ enemy[i].pos = <<-48, 0>>
         /\ enemy[i].current_direction = "DOWN"

\* C14: on a tick of an active enemy, if the cell one step ahead in the
\* chosen heading (the chase heading inside the detection radius, else the
\* heading it has) is a wall or a treasure position, the enemy stays where it
\* is and its heading becomes one of the four directions; otherwise it
\* advances by exactly one cell and keeps the chosen heading.  An enemy
\* outside the detection radius changes heading only on a blocked step.
C14_StepOrTurn ==
    [][\A i \in DOMAIN enemy :
         (EnemyTick(i) /\ enemy[i].is_active) =>
            LET e     == enemy[i]
                close == is_close_to_player(e, player_pos)
                c     == ChaseTo(e.pos, player_pos)
                h     == IF close /\ c # "none" THEN c ELSE e.current_direction
            IN /\ SteppedIn(e, enemy'[i], h)
               /\ enemy'[i].pos # e.pos =>
                    /\ DistSq(enemy'[i].pos, e.pos) = CELL_SIZE * CELL_SIZE
                    /\ ~Blocked(enemy'[i].pos)
               /\ (~close /\ enemy'[i].current_direction # e.current_direction) =>
                    /\ enemy'[i].pos = e.pos
                    /\ Blocked(Step(e.pos, e.current_direction))]_vars

\* In the yard the player has not moved and the enemy is one cell to the left
\* of the cell it started on, heading Left: it took the step from outside
\* the detection radius, in the heading it had.
C14_Witness ==
    /\ level = TestLevels[4]
    /\ player_pos = player_spawn
    /\ move_history = <<>>
    /\ \E i \in DOMAIN enemy :
         /\ enemy[i].is_active
         /\ enemy[i].pos = <<24, 24>>
         /\ enemy[i].current_direction = "LEFT"
         /\ ~is_close_to_player([enemy[i] EXCEPT !.pos = <<48, 24>>], player_pos)

----------------------------------------------------------------------------
(* The life of a level's entities.  Game.run calls run_level on the same   *)
(* GameLevel object again when the level was failed or is chosen again;    *)
(* the timers of its former enemies are delivered by whatever              *)
(* screen.update() runs when they are due.  The menus shown between two    *)
(* plays are left out here: they read and write nothing of the level.      *)

\* Bound: the Enemy objects there are at one time (in the level's list, or
\* destroyed with a timer still pending).
MaxEnemyObjects == 1

\* The timer of an enemy is delivered after run_level has returned, by a
\* screen.update() of Game.run (880, 1295, 1353, 1409): Enemy.move.
LateTick(i) ==
    /\ pc = "returned"
    /\ enemy[i].timers > 0
    /\ \E rnd \in Direction :
         enemy' = [enemy EXCEPT ![i] = EnemyMove(enemy[i], player_pos, rnd)]
    /\ UNCHANGED <<playerVars, flagVars, levelVars, ctlVars, obsVars,
                   modeVars>>

\* The Enemy objects nothing refers to any more: in no list of the level, no
\* timer pending (the screen's list of turtles is emptied by the
\* _safe_clear_screen of the next setup_level).
Unreferenced ==
    SelectSeq([i \in 1..Len(enemy) |-> i],
              LAMBDA i : enemy[i].timers = 0 /\ i \notin SeqToSet(enemies))

\* Where the j-th Enemy made by the next setup_level is kept: in the place
\* of an unreferenced one (free lists them), or behind the others.
NewSlot(j, free) ==
    IF j <= Len(free) THEN free[j] ELSE Len(enemy) + (j - Len(free))

\* setup_level (882-995) on the GameLevel object as the last play left it,
\* p being what its parse loop computes: the loop adds to the sets and
\* appends to the lists the object holds, every enemy in the list gets a
\* timer (948-952), and there is a new Player.
SetupAgain(p, free) ==
    LET n == Len(p.enemy_pos)
        size == IF n <= Len(free) THEN Len(enemy)
                ELSE Len(enemy) + (n - Len(free))
        slots == [j \in 1..n |-> NewSlot(j, free)]
    IN /\ size <= MaxEnemyObjects
       /\ walls' = p.walls
       /\ treasure_positions' = p.treasure_positions
       /\ treasures' = treasures \o p.treasures
       /\ enemies' = enemies \o slots
       /\ player_spawn' = p.player_spawn
       /\ end_pos' = p.end_pos
       /\ player_pos' = p.player_pos
       /\ \E hd \in [1..n -> Direction] :
            enemy' = [k \in 1..size |->
               IF \E j \in 1..n : slots[j] = k
               THEN LET j == CHOOSE j \in 1..n : slots[j] = k
                    IN [pos |-> p.enemy_pos[j],
                        current_direction |-> hd[j],
                        is_active |-> TRUE, timers |-> 1]
               ELSE IF k \in SeqToSet(enemies)
               THEN [enemy[k] EXCEPT !.timers = @ + 1]
               ELSE enemy[k]]
       /\ gold' = 0
       /\ move_history' = <<>>
       /\ is_auto_mode' = FALSE
       /\ is_reverse_mode' = FALSE
       /\ auto_mode' = FALSE
       /\ create_mode' = FALSE
       /\ return_to_menu' = FALSE
       /\ pc' = "setup_upd"
       /\ idx' = 0
       /\ replay' = <<>>
       /\ result' = "running"
       /\ move_ret' = FALSE
       /\ frame_log' = NoFrame
       /\ UNCHANGED <<level, game_mode, modeVars>>

\* Game.run calls run_level(level) once more (1308).
PlayAgain ==
    /\ pc = "returned"
    /\ SetupAgain(ParseLevel(level.layout, walls, treasure_positions,
                             player_spawn), Unreferenced)

NextLife ==
    \/ Next
    \/ FailInLevel
    \/ \E i \in DOMAIN enemy : LateTick(i)
    \/ PlayAgain

\* A level with an enemy two cells away from the player and the end between
\* them: ["XXXXX", "XPFEX", "XXXXX"].
LayoutLane ==
    << <<"X", "X", "X", "X", "X">>,
       <<"X", "P", "F", "E", "X">>,
       <<"X", "X", "X", "X", "X">> >>

\* The levels played here: the lane without an auto_solution (a Create
\* button) and the path with one (an Auto button).
LifeLevels == << [layout |-> LayoutLane, auto_solution |-> <<>>], TestLevels[5] >>

InitLife == InitPlay(LifeLevels)

SpecLife == InitLife /\ [][NextLife]_vars

\* Enemy.move of the i-th Enemy object is run by some screen.update().
Tick(i) == i \in DOMAIN enemy /\ (EnemyTick(i) \/ LateTick(i))

\* The program keeps calling screen.update() (every loop of Game.run and of
\* run_level does), and an update runs the timers that are due.
SpecLifeFair ==
    SpecLife /\ \A i \in 1..MaxEnemyObjects : WF_vars(Tick(i))

\* The step drops the i-th Enemy object, which nothing refers to.
Dropped(i) ==
    pc = "returned" /\ pc' = "setup_upd" /\ i \in SeqToSet(Unreferenced)

\* C15: an enemy that stops being active is parked at (2000, 2000), and
\* from then on no step, a tick of that enemy included, changes its
\* position or its heading or makes it active again (until the object is
\* dropped).
C15_DestroyedStaysPut ==
    [][\A i \in DOMAIN enemy :
         /\ (enemy[i].is_active /\ i \in DOMAIN enemy'
                /\ ~enemy'[i].is_active) =>
              enemy'[i].pos = <<PARK, PARK>>
         /\ (~enemy[i].is_active /\ ~Dropped(i)) =>
              /\ i \in DOMAIN enemy'
              /\ ~enemy'[i].is_active
              /\ enemy'[i].pos = enemy[i].pos
              /\ enemy'[i].current_direction = enemy[i].current_direction]_vars

\* The timer that was pending when the enemy was destroyed has fired.
C15_Witness ==
    /\ pc = "returned"
    /\ \E i \in DOMAIN enemy :
         /\ ~enemy[i].is_active
         /\ enemy[i].timers = 0
         /\ enemy[i].pos = <<PARK, PARK>>

\* The i-th Enemy object is destroyed and one of its timers is pending.
LatePending(i) ==
    i \in DOMAIN enemy /\ ~enemy[i].is_active /\ enemy[i].timers > 0

\* C16: no enemy ever has more than one timer pending; no step sets a timer
\* for an enemy that is not active, so that the timer pending when its level
\* was torn down is the last one; and under every schedule of the ticks and
\* the play loop in which due timers are delivered, no timer of a destroyed
\* enemy stays pending for ever: again and again there is none.
C16_TimersRunOut ==
    /\ [](\A i \in DOMAIN enemy : enemy[i].timers <= 1)
    /\ [][\A i \in DOMAIN enemy :
            (~enemy[i].is_active /\ ~Dropped(i)) =>
               enemy'[i].timers <= enemy[i].timers]_vars
    /\ \A i \in 1..MaxEnemyObjects : []<>(~LatePending(i))

\* The level was won and torn down while the enemy's timer was pending.
C16_Witness ==
    /\ pc = "returned"
    /\ result = "success"
    /\ \E i \in DOMAIN enemy : LatePending(i) /\ enemy[i].timers = 1

\* The positions of the cells of the level's layout that hold ch.
LayoutCells(ch) == PositionsOf(level.layout, Cells(level.layout, 1), ch)

\* The level's lists hold one active enemy with one timer for every E cell
\* (es says where each is) and one treasure on every T cell.
Populated(es, ts, store) ==
    /\ Len(es) = Len(LayoutCells("E"))
    /\ \A k \in 1..Len(es) :
         /\ \A j \in 1..Len(es) : es[j] = es[k] => j = k
         /\ store[es[k]].is_active
         /\ store[es[k]].timers = 1
    /\ [k \in 1..Len(ts) |-> ts[k].pos] = LayoutCells("T")

\* C17: a step in which run_level returns leaves the level's list of enemies
\* and its list of treasures empty and every enemy that was in the list
\* inactive; the first setup_level of a level, and every later one, leaves
\* one enemy for each E cell of the layout, on that cell, and one treasure
\* on each T cell.
C17_EmptiedAndRefilled ==
    /\ [](pc = "setup_upd" => Populated(enemies, treasures, enemy))
    /\ [][/\ (pc # "returned" /\ pc' = "returned") =>
               /\ enemies' = <<>>
               /\ treasures' = <<>>
               /\ \A k \in 1..Len(enemies) : ~enemy'[enemies[k]].is_active
          /\ (pc = "returned" /\ pc' = "setup_upd") =>
               /\ Populated(enemies', treasures', enemy')
               /\ [k \in 1..Len(enemies') |-> enemy'[enemies'[k]].pos]
                     = LayoutCells("E")]_vars

\* The path was left by its MENU button after its treasure was collected.
C17_Witness ==
    /\ pc = "returned"
    /\ level.layout = LayoutPath
    /\ gold = TREASURE_VALUE
    /\ return_to_menu
    /\ treasures = <<>>

----------------------------------------------------------------------------
(* Properties of auto-solve (checked under Spec) *)

\* run_auto_mode is running: the play loop is at the screen.update() of one
\* of its steps.
InAutoSolve == pc = "auto_upd"

\* C18: the step that starts auto-solve, every step taken while it runs
\* (its own steps, key presses, clicks, enemy ticks) and the step that ends
\* it leave the player's gold and the level's list of treasures as they
\* were.
C18_AutoCollectsNothing ==
    [][(InAutoSolve \/ InAutoSolve') =>
          gold' = gold /\ treasures' = treasures]_vars

\* Auto-solve has moved the player onto a cell whose treasure is still in
\* the level's list.
C18_Witness ==
    /\ InAutoSolve
    /\ is_auto_mode
    /\ \E k \in 1..Len(treasures) : treasures[k].pos = player_pos

\* The directions of the first n tokens of the level's auto_solution.
Tokens(n) == [k \in 1..n |-> from_string(level.auto_solution[k])]

\* C19: while auto-solve runs the player is in auto-mode with an empty
\* history, at the position reached from the spawn by applying the tokens
\* read so far, in order, with move_to_direction; it ends only after the
\* last token, and the step that ends it clears the auto flag and the
\* auto-mode, puts the player on the spawn with an empty history and leaves
\* run_level running; the frame that follows does not find the end unless a
\* key has moved the player since.
C19_AutoSolve ==
    /\ [](InAutoSolve =>
            /\ idx \in 1..Len(level.auto_solution)
            /\ is_auto_mode
            /\ move_history = <<>>
            /\ player_pos = ReplayAll(player_spawn, Tokens(idx)))
    /\ []((pc = "post_auto_upd" /\ move_history = <<>>) =>
            ~AtEnd(player_pos))
    /\ [][/\ (~InAutoSolve /\ InAutoSolve') => idx' = 1 /\ auto_mode
          /\ (InAutoSolve /\ InAutoSolve') => idx' \in {idx, idx + 1}
          /\ (InAutoSolve /\ ~InAutoSolve') =>
               /\ idx = Len(level.auto_solution)
               /\ ~is_auto_mode'
               /\ ~auto_mode'
               /\ player_pos' = player_spawn
               /\ move_history' = <<>>
               /\ pc' = "post_auto_upd"
               /\ result' = "running"]_vars

\* Auto-solve has walked the path to its end position and is over: the
\* player is on the spawn, and the level goes on.
C19_Witness ==
    /\ pc = "post_auto_upd"
    /\ ReplayAll(player_spawn, Tokens(Len(level.auto_solution))) = end_pos
    /\ player_pos = player_spawn
    /\ move_history = <<>>
    /\ ~is_auto_mode
    /\ ~auto_mode
    /\ result = "running"

----------------------------------------------------------------------------
(* Auto-solve on the built-in levels: run_level is called on a level of    *)
(* Game._create_levels that has an auto_solution; it has no enemy.         *)

AutoLevels == SelectSeq(levels, LAMBDA lv : lv.auto_solution # <<>>)

InitBuiltin == InitPlay(AutoLevels)

NextBuiltin ==
    \/ \E d \in Direction : KeyPress(d)
    \/ \E b \in {"menu", "auto", "create"} : handle_button_click(b)
    \/ LoopHead
    \/ AutoStep
    \/ AutoFinish
    \/ PostAuto

SpecBuiltin == InitBuiltin /\ [][NextBuiltin]_vars

\* C20 (as stated): while the auto_solution of a built-in level is replayed
\* the player is never on a wall cell, and after the last token the player
\* is on the level's end position.
C20_AutoPathValid ==
    InAutoSolve =>
       /\ player_pos \notin walls
       /\ idx = Len(level.auto_solution) => player_pos = end_pos

\* What the replays do satisfy: each ends on the level's end position, and
\* the one of the second level never enters a wall.
C20_AutoPathEnds ==
    InAutoSolve =>
       /\ idx = Len(level.auto_solution) => player_pos = end_pos
       /\ level = level_1 => player_pos \notin walls

----------------------------------------------------------------------------
(* Keys during the two replays *)

\* C21: auto-mode and reverse-mode are never both set, and a key press
\* delivered while either is set (by an update between two steps of the
\* scripted replay or of the victory replay) changes neither the player's
\* position nor its move-history.
C21_KeysShutOut ==
    /\ [](~(is_auto_mode /\ is_reverse_mode))
    /\ [][\A d \in Direction :
            KeyPress(d) /\ (is_auto_mode \/ is_reverse_mode) =>
              /\ player_pos' = player_pos
              /\ move_history' = move_history]_vars

\* The victory replay is under way, half done, on a cell with a free
\* neighbour, and the last key press was rejected.
C21_Witness ==
    /\ pc = "replay_upd"
    /\ is_reverse_mode /\ ~is_auto_mode
    /\ 0 < idx /\ idx < Len(replay)
    /\ \E d \in Direction : Step(player_pos, d) \notin walls
    /\ move_ret = FALSE

----------------------------------------------------------------------------
(* The level editor on its own: any sequence of clicks given to            *)
(* LevelEditor.handle_click.  A click delivered by the update of a message *)
(* runs handle_click to its end before the interrupted call returns, which *)
(* then changes nothing more, so the clicks act on the editor one after    *)
(* the other.                                                              *)

\* The longest placement list.
MaxPlaced == 2

\* Click positions: the two buttons, the five palette entries and a point of
\* the palette column between two entries, and grid points: cell (-11, -9)
\* at its centre and off it, cell (0, 9), cell (2, 3), and cells (12, 0) and
\* (0, -10), which are out of bounds.
EditPoints ==
    { <<-540, -175>>, <<-540, -275>>,
      <<-600, 300>>, <<-600, 200>>, <<-600, 100>>, <<-600, 0>>,
      <<-600, -100>>, <<-600, 50>>,
      <<-264, -216>>, <<-260, -210>>, <<0, 216>>, <<48, 72>>,
      <<288, 0>>, <<0, -240>> }

\* run_creator_mode has made a new LevelEditor and waits in its loop.
InitEditor ==
    /\ player_pos = <<0, 0>>
    /\ gold = 0
    /\ move_history = <<>>
    /\ is_auto_mode = FALSE
    /\ is_reverse_mode = FALSE
    /\ return_to_menu = FALSE
    /\ create_mode = FALSE
    /\ auto_mode = FALSE
    /\ game_mode = "create"
    /\ level = NoLevel
    /\ walls = {}
    /\ treasure_positions = {}
    /\ treasures = <<>>
    /\ enemies = <<>>
    /\ player_spawn = None
    /\ end_pos = None
    /\ enemy = <<>>
    /\ pc = "creator_upd"
    /\ idx = 0
    /\ replay = <<>>
    /\ result = "none"
    /\ move_ret = FALSE
    /\ frame_log = NoFrame
    /\ stack = <<Frame("after_creator")>>
    /\ current_level = 0
    /\ is_running = TRUE
    /\ loaded = NotLoaded
    /\ onclick = "editor"
    /\ selected_item = "none"
    /\ placed_items = <<>>
    /\ click_log = NoClick
    /\ return_clicked = FALSE

\* LevelEditor.handle_click(x, y); on 'play' the caller exports the layout
\* (_play_custom_level, line 1229), which is logged.
EditorClick(x, y) ==
    /\ pc = "creator_upd"
    /\ LET r == handle_click(selected_item, placed_items, x, y)
       IN /\ Len(r.placed) <= MaxPlaced
          /\ selected_item' = r.selected
          /\ placed_items' = r.placed
          /\ click_log' =
               [x |-> x, y |-> y, action |-> r.action, msg |-> r.text,
                placed |-> Len(r.placed) > Len(placed_items),
                layout |-> IF r.action = "play"
                           THEN get_custom_level_layout(placed_items)
                           ELSE <<>>]
    /\ UNCHANGED <<playerVars, flagVars, levelVars, enemy, ctlVars, obsVars,
                   stack, current_level, is_running, loaded, onclick, return_clicked>>

NextEditor == \E pt \in EditPoints : EditorClick(pt[1], pt[2])

SpecEditor == InitEditor /\ [][NextEditor]_vars

\* A click outside the two buttons and the palette column.
IsGridClick(x, y) ==
    /\ ~contains_point(play_button, x, y)
    /\ ~contains_point(clear_button, x, y)
    /\ ~(-612 < x /\ x < -588)

\* The canonical position of a click: the centre of its cell.
Canonical(x, y) == cell_to_pixel(pixel_to_cell(x, y)[1], pixel_to_cell(x, y)[2])

OutOfBounds(x, y) ==
    \/ Abs(pixel_to_cell(x, y)[1]) >= GRID_COLS \div 2
    \/ Abs(pixel_to_cell(x, y)[2]) >= GRID_ROWS \div 2

Occupied(x, y) ==
    \E i \in 1..Len(placed_items) :
        <<placed_items[i][2], placed_items[i][3]>> = Canonical(x, y)

Count(t) == Cardinality({i \in 1..Len(placed_items) : placed_items[i][1] = t})

\* C22: a grid click is rejected (placement list and selection unchanged)
\* when its cell is out of bounds, when an item is already at its canonical
\* position (found before the start and end rules are looked at), when the
\* selection is start and a start is placed, or when the selection is end and
\* an end is placed; the same click given again is rejected again.
C22_Rejections ==
    [][LET x == click_log'.x
           y == click_log'.y
       IN /\ IsGridClick(x, y)
          /\ \/ OutOfBounds(x, y)
             \/ Occupied(x, y)
             \/ selected_item = "s" /\ Count("s") > 0
             \/ selected_item = "f" /\ Count("f") > 0
          => /\ placed_items' = placed_items
             /\ selected_item' = selected_item
             /\ ~click_log'.placed
             /\ (selected_item # "none" /\ ~OutOfBounds(x, y) /\ Occupied(x, y)
                   => click_log'.msg = "stack")
             /\ handle_click(selected_item', placed_items', x, y).placed
                  = placed_items']_vars

\* A click off the centre of an occupied cell, made with start selected
\* while a start is placed, was turned down as a stacking.
C22_Witness ==
    /\ click_log.msg = "stack"
    /\ <<click_log.x, click_log.y>> # Canonical(click_log.x, click_log.y)
    /\ selected_item = "s"
    /\ Count("s") = 1
    /\ ~click_log.placed

\* A click on the palette column that is on neither button.
IsPaletteClick(x, y) ==
    /\ ~contains_point(play_button, x, y)
    /\ ~contains_point(clear_button, x, y)
    /\ -612 < x /\ x < -588

\* C23: the placement list holds at most one start, at most one end and no
\* two entries with the same position; it changes only by one entry being
\* appended on an accepted placement or by clear-all emptying it; palette
\* clicks, and grid clicks made with nothing selected, never change it.
C23_ListDiscipline ==
    /\ [](/\ Count("s") <= 1
          /\ Count("f") <= 1
          /\ \A i, j \in 1..Len(placed_items) :
                /\ placed_items[i][2] = placed_items[j][2]
                /\ placed_items[i][3] = placed_items[j][3]
                => i = j)
    /\ [][/\ \/ placed_items' = placed_items
             \/ /\ click_log'.placed
                /\ Len(placed_items') = Len(placed_items) + 1
                /\ SubSeq(placed_items', 1, Len(placed_items)) = placed_items
                /\ placed_items'[Len(placed_items')] =
                     <<selected_item, Canonical(click_log'.x, click_log'.y)[1],
                       Canonical(click_log'.x, click_log'.y)[2]>>
             \/ /\ click_log'.action = "clear"
                /\ placed_items' = <<>>
          /\ IsPaletteClick(click_log'.x, click_log'.y)
               => placed_items' = placed_items
          /\ IsGridClick(click_log'.x, click_log'.y) /\ selected_item = "none"
               => placed_items' = placed_items]_vars

\* A palette entry was clicked while the list held a start and an end.
C23_Witness ==
    /\ Count("s") = 1
    /\ Count("f") = 1
    /\ IsPaletteClick(click_log.x, click_log.y)
    /\ selected_item = PaletteZone(click_log.y)
    /\ selected_item = "t"

\* The grid points of EditPoints whose cell is in bounds.
PlacePoints == {pt \in EditPoints : IsGridClick(pt[1], pt[2]) /\ ~OutOfBounds(pt[1], pt[2])}

\* C24 as stated: after clear-all the placement list is empty and no palette
\* symbol is selected, so that a grid click that follows places nothing.
C24_ClearDeselects ==
    [][click_log'.action = "clear" =>
         /\ placed_items' = <<>>
         /\ selected_item' = "none"
         /\ \A pt \in PlacePoints :
              handle_click(selected_item', placed_items', pt[1], pt[2]).placed
                = <<>>]_vars

\* C24, amended: after clear-all the placement list is empty and the
\* selection is the one made before it, so that a grid click on an
\* in-bounds cell that follows places the selected symbol, if there is one.
C24_ClearKeepsSelection ==
    [][click_log'.action = "clear" =>
         /\ placed_items' = <<>>
         /\ selected_item' = selected_item
         /\ \A pt \in PlacePoints :
              handle_click(selected_item', placed_items', pt[1], pt[2]).placed
                = IF selected_item = "none" THEN <<>>
                  ELSE <<  <<selected_item, Canonical(pt[1], pt[2])[1],
                             Canonical(pt[1], pt[2])[2]>>  >>]_vars

\* CLEAR ALL was clicked while the wall was selected.
C24_Witness ==
    /\ click_log.action = "clear"
    /\ placed_items = <<>>
    /\ selected_item = "m"

\* The grid and the recorded start and end the export of the current list
\* has after its placement loop.
Exported ==
    PlaceItems(placed_items, [grid |-> empty_grid, start_pos |-> None,
                              end_pos |-> None])

\* The cell at 0-based <<row, col>> of the exported layout is a wall, or it
\* is the recorded start or end.
WallOrStartEnd(rc) ==
    \/ get_custom_level_layout(placed_items)[rc[1] + 1][rc[2] + 1] = "X"
    \/ rc = Exported.start_pos
    \/ rc = Exported.end_pos

\* C25: for every placement list the editor can reach, each cell of row 0,
\* of the last row, of column 0 and of the last column of the exported
\* layout is a wall unless it is the recorded start or end cell.
C25_Enclosed ==
    /\ \A c \in 0..(GRID_COLS - 1) :
         WallOrStartEnd(<<0, c>>) /\ WallOrStartEnd(<<GRID_ROWS - 1, c>>)
    /\ \A r \in 0..(GRID_ROWS - 1) :
         WallOrStartEnd(<<r, 0>>) /\ WallOrStartEnd(<<r, GRID_COLS - 1>>)

\* What does hold: row 0, column 0 and the last column are enclosed.
C25_EnclosedOnThreeSides ==
    /\ \A c \in 0..(GRID_COLS - 1) : WallOrStartEnd(<<0, c>>)
    /\ \A r \in 0..(GRID_ROWS - 1) :
         WallOrStartEnd(<<r, 0>>) /\ WallOrStartEnd(<<r, GRID_COLS - 1>>)

\* C26: exporting an empty placement list yields GRID_ROWS rows of GRID_COLS
\* symbols, every perimeter cell a wall and every interior cell open floor
\* (a symbol the level parser gives no meaning to), and the export leaves
\* the placement list as it was.
C26_EmptyExport ==
    /\ [](click_log.action = "play" /\ placed_items = <<>> =>
            LET layout == click_log.layout
                p      == ParseLevel(layout, {}, {}, None)
            IN /\ Len(layout) = GRID_ROWS
               /\ \A r \in 1..GRID_ROWS :
                    /\ Len(layout[r]) = GRID_COLS
                    /\ \A c \in 1..GRID_COLS :
                         IF r \in {1, GRID_ROWS} \/ c \in {1, GRID_COLS}
                         THEN /\ layout[r][c] = "X"
                              /\ PosOf(layout, <<r, c>>) \in p.walls
                         ELSE /\ layout[r][c] \notin {"X", "P", "T", "E", "S", "F"}
                              /\ PosOf(layout, <<r, c>>) \notin p.walls
               /\ p.treasures = <<>> /\ p.enemy_pos = <<>>
               /\ p.player_spawn = None /\ p.end_pos = None)
    /\ [][click_log'.action = "play" => placed_items' = placed_items]_vars

\* PLAY MAP was clicked on an editor whose list is empty, a symbol being
\* selected.
C26_Witness ==
    /\ click_log.action = "play"
    /\ placed_items = <<>>
    /\ selected_item # "none"
    /\ Len(click_log.layout) = GRID_ROWS

\* The screen position setup_level gives the cell of the exported layout
\* that holds the i-th placed item.
PlayedAt(i) ==
    get_screen_position(get_custom_level_layout(placed_items),
                        ItemRowCol(placed_items[i])[1],
                        ItemRowCol(placed_items[i])[2])

\* The exported layout holds the i-th placed item's in-game symbol in the
\* item's cell.
ExportedSymbol(i) ==
    get_custom_level_layout(placed_items)
        [ItemRowCol(placed_items[i])[1] + 1][ItemRowCol(placed_items[i])[2] + 1]
      = LayoutSymbol(placed_items[i][1])

\* C27: every accepted placement appears in the exported layout with its
\* in-game symbol, and when that layout is played the item stands at the
\* screen position (x and y) at which it was placed in the editor.
C27_ExportInverts ==
    \A i \in 1..Len(placed_items) :
        /\ ExportedSymbol(i)
        /\ PlayedAt(i) = <<placed_items[i][2], placed_items[i][3]>>

\* What does hold: the symbol is exported, and the item is played at the
\* x at which it was placed and at the opposite y.
C27_ExportMirrors ==
    \A i \in 1..Len(placed_items) :
        /\ ExportedSymbol(i)
        /\ PlayedAt(i) = <<placed_items[i][2], -placed_items[i][3]>>

----------------------------------------------------------------------------
(* PLAY MAP *)

\* The layout the editor would export has a start and an end.
ExportPlayable ==
    /\ LayoutHas(get_custom_level_layout(placed_items), "S")
    /\ LayoutHas(get_custom_level_layout(placed_items), "F")

\* C28: the editor's Play action enters play on the custom level only if the
\* exported layout contains a start and an end; when either is missing no
\* level is set up, the mode stays Create and the placement list is
\* unchanged.
C28_PlayNeedsStartAndEnd ==
    [][/\ Mode # "PlayCustom" /\ Mode' = "PlayCustom"
          => ClickOn("editor", play_button) /\ ExportPlayable
       /\ ClickOn("editor", play_button) /\ ~ExportPlayable
          => /\ Mode = "Create" /\ Mode' = "Create"
             /\ UNCHANGED <<levelVars, playerVars, enemy, editorVars>>
             /\ pc' = "custom_err_upd1"]_vars

\* PLAY MAP was clicked on a list with a start and no end: the error message
\* is on the screen.
C28_Witness ==
    /\ pc = "custom_err_upd1"
    /\ Mode = "Create"
    /\ HasType(placed_items, "s")
    /\ ~HasType(placed_items, "f")

----------------------------------------------------------------------------
(* Treasures *)

\* The live treasures the player collides with.
Touched == {k \in 1..Len(treasures) : is_collision(player_pos, treasures[k].pos)}

\* C29: each treasure is collected at most once per play of a level: a
\* frame adds the gold of every live treasure the player collides with
\* exactly once and takes it off the live list, so that during a play the
\* player's gold is the treasure value times the number of treasures
\* removed in this play, and it never exceeds the value of all T cells of
\* the layout.
C29_CollectedOnce ==
    /\ [](/\ pc # "returned" =>
               gold = TREASURE_VALUE * (Len(LayoutCells("T")) - Len(treasures))
          /\ gold <= TREASURE_VALUE * Len(LayoutCells("T")))
    /\ [][/\ gold' # gold =>
               \/ pc' = "setup_upd" /\ gold' = 0
               \/ gold' = gold + TREASURE_VALUE * Cardinality(Touched)
          /\ treasures' # treasures /\ pc' \notin {"returned", "setup_upd"} =>
               /\ Touched # {}
               /\ gold' = gold + TREASURE_VALUE * Cardinality(Touched)
               /\ treasures' = SelectSeq(treasures,
                                 LAMBDA t : ~is_collision(player_pos, t.pos))]_vars

\* The player is back on the cell of the treasure it collected two moves
\* ago, and holds the gold of one treasure.
C29_Witness ==
    /\ pc = "frame_upd"
    /\ player_pos \in SeqToSet(LayoutCells("T"))
    /\ frame_log.pos = player_pos
    /\ frame_log.picked = 0
    /\ Len(move_history) = 3
    /\ treasures = <<>>
    /\ gold = TREASURE_VALUE

----------------------------------------------------------------------------
(* MazeLoader, and the two layout parsers on the same text *)

\* Bounds: the rows of a text and the characters of a row.
MaxFileRows == 1

MaxFileCols == 2

\* The characters of the texts: the four symbols of the maze files and a
\* blank; of these the in-game parser knows X only.
FileChars == {".", "#", "x", "X", " "}

\* The rows of 1..n characters.
RowsUpTo(n) == UNION {[1..k -> FileChars] : k \in 1..n}

\* The texts of 1..MaxFileRows rows.
FileTexts == UNION {[1..k -> RowsUpTo(MaxFileCols)] : k \in 1..MaxFileRows}

\* The lines a file holding the text gives when it is iterated: each row
\* with its newline.
FileLines(text) == [r \in 1..Len(text) |-> Append(text[r], "\n")]

\* The inner loop of load_from_file on the characters of a line from
\* 0-based column col_idx on; st holds the row built so far and the start
\* and end positions.
RECURSIVE LoadLine(_, _, _, _)
LoadLine(line, row_idx, col_idx, st) ==
    IF col_idx >= Len(line) THEN st
    ELSE LET char == line[col_idx + 1]
             nx == IF char = "."
                   THEN [st EXCEPT !.row = Append(@, 0)]
                   ELSE IF char = "#"
                   THEN [st EXCEPT !.row = Append(@, 1)]
                   ELSE IF char = "x"
                   THEN [st EXCEPT !.row = Append(@, 0),
                                   !.start_pos = <<row_idx, col_idx>>]
                   ELSE IF char = "X"
                   THEN [st EXCEPT !.row = Append(@, 0),
                                   !.end_pos = <<row_idx, col_idx>>]
                   ELSE st
         IN LoadLine(line, row_idx, col_idx + 1, nx)

\* The outer loop of load_from_file from 0-based line row_idx on: a row
\* that got no cell is not added to the maze.
RECURSIVE LoadLines(_, _, _)
LoadLines(lines, row_idx, st) ==
    IF row_idx >= Len(lines) THEN st
    ELSE LET l == LoadLine(lines[row_idx + 1], row_idx, 0,
                           [row |-> <<>>, start_pos |-> st.start_pos,
                            end_pos |-> st.end_pos])
         IN LoadLines(lines, row_idx + 1,
                      [maze |-> IF l.row # <<>> THEN Append(st.maze, l.row)
                                ELSE st.maze,
                       start_pos |-> l.start_pos, end_pos |-> l.end_pos])

\* MazeLoader.load_from_file on a file with the given lines.
load_from_file(lines) ==
    LoadLines(lines, 0, [maze |-> <<>>, start_pos |-> None, end_pos |-> None])

\* A text is at hand, as the layout of a GameLevel; nothing has parsed it.
InitLoader ==
    /\ \E text \in FileTexts : level = [layout |-> text, auto_solution |-> <<>>]
    /\ player_pos = <<0, 0>>
    /\ gold = 0
    /\ move_history = <<>>
    /\ is_auto_mode = FALSE
    /\ is_reverse_mode = FALSE
    /\ return_to_menu = FALSE
    /\ create_mode = FALSE
    /\ auto_mode = FALSE
    /\ game_mode = "none"
    /\ walls = {}
    /\ treasure_positions = {}
    /\ treasures = <<>>
    /\ enemies = <<>>
    /\ player_spawn = None
    /\ end_pos = None
    /\ enemy = <<>>
    /\ pc = "text"
    /\ idx = 0
    /\ replay = <<>>
    /\ result = "none"
    /\ move_ret = FALSE
    /\ frame_log = NoFrame
    /\ stack = <<>>
    /\ current_level = 0
    /\ is_running = TRUE
    /\ loaded = NotLoaded
    /\ onclick = "menu"
    /\ selected_item = "none"
    /\ placed_items = <<>>
    /\ click_log = NoClick
    /\ return_clicked = FALSE

\* The text is written to a file and MazeLoader.load_from_file reads it.
LoadMaze ==
    /\ loaded = NotLoaded
    /\ loaded' = load_from_file(FileLines(level.layout))
    /\ UNCHANGED <<playerVars, flagVars, levelVars, enemy, ctlVars, obsVars,
                   stack, current_level, is_running, onclick, editorVars,
                   return_clicked>>

\* setup_level parses the text as the layout of the level.
SetupText ==
    /\ pc = "text"
    /\ SetupLevel(level)
    /\ UNCHANGED <<game_mode, stack, current_level, is_running, loaded,
                   editorVars, return_clicked>>

NextLoader == LoadMaze \/ SetupText

SpecLoader == InitLoader /\ [][NextLoader]_vars

\* The cells <<r, c>> (1-based) of the text.
TextCells == {rc \in (1..MaxFileRows) \X (1..MaxFileCols) :
                rc[1] <= Len(level.layout) /\ rc[2] <= Len(level.layout[rc[1]])}

\* The cell at <<r, c>> of the loaded maze exists and is open floor.
LoadedFloor(rc) ==
    /\ rc[1] <= Len(loaded.maze)
    /\ rc[2] <= Len(loaded.maze[rc[1]])
    /\ loaded.maze[rc[1]][rc[2]] = 0

\* Nothing stands on the cell at <<r, c>> after setup_level.
SetupFloor(rc) ==
    /\ PosOf(level.layout, rc) \notin walls \cup treasure_positions
    /\ PosOf(level.layout, rc) # end_pos
    /\ PosOf(level.layout, rc) # player_spawn

\* C30: a character that is not a recognized symbol yields an open-floor
\* cell at its own (row, column), in the raw-file loader as in the in-game
\* layout parser, so that the cells after it keep their column index.
C30_UnknownIsFloor ==
    \A rc \in TextCells :
        /\ loaded # NotLoaded
             /\ CharAt(level.layout, rc) \notin {".", "#", "x", "X"}
             => LoadedFloor(rc)
        /\ pc = "setup_upd"
             /\ CharAt(level.layout, rc) \notin {"X", "P", "T", "E", "S", "F"}
             => SetupFloor(rc)

\* The row load_from_file builds from the r-th row of the text: one cell
\* per recognized symbol, in order.
KnownCells(r) ==
    LET known == SelectSeq(level.layout[r],
                           LAMBDA ch : ch \in {".", "#", "x", "X"})
    IN [c \in 1..Len(known) |-> IF known[c] = "#" THEN 1 ELSE 0]

\* What does hold: the in-game parser gives an unknown character an
\* open-floor cell and every X its own position; the loader gives a row
\* one cell per recognized symbol, none for any other character, and drops
\* the rows left without a cell.
C30_OnlySetupKeepsColumns ==
    /\ pc = "setup_upd" =>
         \A rc \in TextCells :
            IF CharAt(level.layout, rc) = "X"
            THEN PosOf(level.layout, rc) \in walls
            ELSE SetupFloor(rc)
    /\ loaded # NotLoaded =>
         loaded.maze =
           SelectSeq([r \in 1..Len(level.layout) |-> KnownCells(r)],
                     LAMBDA row : row # <<>>)

----------------------------------------------------------------------------
(* Direction.opposite *)

\* C31: for every direction d, d.opposite.opposite is d and d.opposite is
\* never d; so it is for the entry every accepted move records: it is the
\* opposite of the direction moved in, and its own opposite is that
\* direction again.
C31_OppositeInvolution ==
    /\ [](\A d \in Direction :
            /\ opposite(d) \in Direction
            /\ opposite(opposite(d)) = d
            /\ opposite(d) # d)
    /\ [][Len(move_history') = Len(move_history) + 1 =>
            \E d \in Direction :
               /\ player_pos' = Step(player_pos, d)
               /\ move_history'[Len(move_history')] = opposite(d)
               /\ opposite(move_history'[Len(move_history')]) = d
               /\ move_history'[Len(move_history')] # d]_vars

\* Three accepted moves in three different directions are on record.
C31_Witness ==
    /\ Len(move_history) = 3
    /\ Cardinality(SeqToSet(move_history)) = 3
    /\ move_ret

----------------------------------------------------------------------------
(* Player.is_collision on positions near the threshold *)

\* Bound: the largest coordinate of the positions tried.
MaxOffset == 5

\* Positions at distances below, at and above COLLISION_DISTANCE of each
\* other.
CollidePoints == (0..MaxOffset) \X (0..MaxOffset)

\* run_level is at a frame of a level without walls, treasures or enemies;
\* the player stands on one of the positions and the end is another.
InitCollide ==
    /\ player_pos \in CollidePoints
    /\ end_pos \in CollidePoints
    /\ gold = 0
    /\ move_history = <<>>
    /\ is_auto_mode = FALSE
    /\ is_reverse_mode = FALSE
    /\ return_to_menu = FALSE
    /\ create_mode = FALSE
    /\ auto_mode = FALSE
    /\ game_mode = "play"
    /\ level = NoLevel
    /\ walls = {}
    /\ treasure_positions = {}
    /\ treasures = <<>>
    /\ enemies = <<>>
    /\ player_spawn = None
    /\ enemy = <<>>
    /\ pc = "frame_upd"
    /\ idx = 0
    /\ replay = <<>>
    /\ result = "running"
    /\ move_ret = FALSE
    /\ frame_log = NoFrame
    /\ stack = <<>>
    /\ current_level = 0
    /\ is_running = TRUE
    /\ loaded = NotLoaded
    /\ onclick = "level"
    /\ selected_item = "none"
    /\ placed_items = <<>>
    /\ click_log = NoClick
    /\ return_clicked = FALSE

\* The frames of run_level: each tests the player against the end.
SpecCollide == InitCollide /\ [][LoopHead]_vars

\* The distance of a and b is strictly below the collision threshold.
Near(a, b) ==
    LET ax == Abs(a[1] - b[1])
        ay == Abs(a[2] - b[2])
    IN (ax * ax) + (ay * ay) < COLLISION_DISTANCE * COLLISION_DISTANCE

\* C32: collision is symmetric, collides(a, b) = collides(b, a), and it
\* holds exactly when the distance of a and b is strictly below the
\* collision threshold; so it is for the test a frame makes of the player
\* against the end.
C32_CollisionSymmetric ==
    /\ is_collision(player_pos, end_pos) = is_collision(end_pos, player_pos)
    /\ is_collision(player_pos, end_pos) = Near(player_pos, end_pos)
    /\ frame_log # NoFrame =>
         /\ frame_log.at_end = is_collision(end_pos, frame_log.pos)
         /\ frame_log.at_end = Near(frame_log.pos, end_pos)

\* A frame found the player, exactly COLLISION_DISTANCE away from the end
\* on a slanted line, not to be on it.
C32_Witness ==
    /\ frame_log # NoFrame
    /\ ~frame_log.at_end
    /\ frame_log.pos[1] # end_pos[1]
    /\ frame_log.pos[2] # end_pos[2]
    /\ DistSq(frame_log.pos, end_pos) = COLLISION_DISTANCE * COLLISION_DISTANCE

----------------------------------------------------------------------------
(* The chase *)

\* An enemy in a nook below the corridor, a wall to its left:
\* ["XXXXX", "XP FX", "XXEXX", "XXXXX"].
LayoutNook ==
    << <<"X", "X", "X", "X", "X">>,
       <<"X", "P", " ", "F", "X">>,
       <<"X", "X", "E", "X", "X">>,
       <<"X", "X", "X", "X", "X">> >>

\* The same with a treasure to the enemy's left:
\* ["XXXXX", "XP FX", "XTEXX", "XXXXX"].
LayoutNookTreasure ==
    << <<"X", "X", "X", "X", "X">>,
       <<"X", "P", " ", "F", "X">>,
       <<"X", "T", "E", "X", "X">>,
       <<"X", "X", "X", "X", "X">> >>

ChaseLevels ==
    << [layout |-> LayoutNook, auto_solution |-> <<"right", "right">>],
       [layout |-> LayoutNookTreasure, auto_solution |-> <<>>] >>

InitChase == InitPlay(ChaseLevels)

\* run_level on a level whose enemy is hemmed in.
SpecChase == InitChase /\ [][Next]_vars

\* The heading towards the player: x is looked at first.
Greedy(i) ==
    IF player_pos[1] < enemy[i].pos[1] THEN "LEFT"
    ELSE IF player_pos[1] > enemy[i].pos[1] THEN "RIGHT"
    ELSE IF player_pos[2] < enemy[i].pos[2] THEN "DOWN"
    ELSE "UP"

\* The active enemy i has the player within its detection radius, not on
\* its own position, and a wall or a treasure cell in the greedy heading.
ChaseBlocked(i) ==
    /\ enemy[i].is_active
    /\ player_pos # enemy[i].pos
    /\ DistSq(enemy[i].pos, player_pos)
         < PLAYER_DETECTION_RADIUS * PLAYER_DETECTION_RADIUS
    /\ Step(enemy[i].pos, Greedy(i)) \in walls \cup treasure_positions

\* C33: while the player stands still within an enemy's detection radius
\* and the cell in the enemy's greedy chase heading is a wall or a treasure,
\* no tick changes the enemy's position, whatever heading the last blocked
\* tick drew; and the enemy stays blocked as long as the player stays put.
C33_ChaseMyopic ==
    [][\A i \in DOMAIN enemy :
          ChaseBlocked(i) /\ enemy'[i].is_active =>
             /\ enemy'[i].pos = enemy[i].pos
             /\ player_pos' = player_pos => ChaseBlocked(i)']_vars

\* The enemy is blocked on the cell it started on, a tick has left it a
\* heading towards the free cell, where it does not go; the player has
\* never moved.
C33_Witness ==
    \E i \in DOMAIN enemy :
       /\ ChaseBlocked(i)
       /\ pc = "frame_upd"
       /\ move_history = <<>>
       /\ enemy[i].current_direction = "UP"
       /\ Step(enemy[i].pos, "UP") \notin walls \cup treasure_positions
       /\ enemy[i].pos \in SeqToSet(LayoutCells("E"))

\* The positions of the level's live treasures.
LivePositions == {treasures[k].pos : k \in 1..Len(treasures)}

\* C34: at every moment of play the treasure occupancy set that blocks
\* enemy steps is the set of positions of the level's live treasures, so
\* that a collected treasure's cell no longer blocks an enemy.
C34_OccupancyIsLive ==
    pc # "returned" => treasure_positions = LivePositions

\* What does hold: the occupancy set is the set of the layout's T cells,
\* collected or not, from setup on.
C34_OccupancyIsLayout ==
    treasure_positions = SeqToSet(LayoutCells("T"))

\* The enemy is kept from stepping towards the player by the cell of a
\* treasure that has been collected.
C34_BlockedByCollected ==
    \E i \in DOMAIN enemy :
       /\ ChaseBlocked(i)
       /\ Step(enemy[i].pos, Greedy(i)) \notin walls \cup LivePositions
       /\ gold = TREASURE_VALUE

----------------------------------------------------------------------------
(* The player and the walls *)

\* The player is under keyboard control in a level being played.
NormalPlay ==
    /\ pc \in {"setup_upd", "frame_upd", "post_auto_upd"}
    /\ ~is_auto_mode
    /\ ~is_reverse_mode

\* C35: during normal play of any level, built-in or custom, while the
\* player is in neither auto-mode nor reverse-mode, the player's position
\* is never in the level's wall set, from the setup of the level on and
\* after any sequence of keyboard moves.
C35_PlayerOffWalls ==
    NormalPlay /\ Mode \in {"Play", "PlayCustom"} => player_pos \notin walls

\* What does hold: it is so in the levels played from the menu, and in a
\* custom level once the player has left the start cell.
C35_OffWallsButOnStart ==
    /\ NormalPlay /\ Mode = "Play" => player_pos \notin walls
    /\ NormalPlay /\ Mode = "PlayCustom" /\ player_pos # player_spawn
         => player_pos \notin walls

----------------------------------------------------------------------------
(* Playing an exported layout *)

\* The editor after the clicks of a sequence, each given to handle_click.
RECURSIVE ClickAll(_, _)
ClickAll(clicks, ed) ==
    IF clicks = <<>> THEN ed
    ELSE LET r == handle_click(ed.selected, ed.placed,
                               Head(clicks)[1], Head(clicks)[2])
         IN ClickAll(Tail(clicks), [selected |-> r.selected, placed |-> r.placed])

\* Clicks that draw a start on cell (0, 8), an end to its right and a
\* treasure on cell (0, 9), and the same with an end in place of the
\* treasure.
DrawnWithTreasure ==
    << <<-600, 0>>, <<0, 192>>, <<-600, -100>>, <<24, 192>>,
       <<-600, 200>>, <<0, 216>> >>

DrawnWithEnd ==
    << <<-600, 0>>, <<0, 192>>, <<-600, -100>>, <<0, 216>> >>

\* The GameLevel _play_custom_level makes of what the clicks have drawn.
Drawn(clicks) ==
    [layout |-> get_custom_level_layout(
                    ClickAll(clicks, [selected |-> "none", placed |-> <<>>]).placed),
     auto_solution |-> <<>>]

ExportedLevels == << Drawn(DrawnWithTreasure), Drawn(DrawnWithEnd) >>

InitExported == InitPlay(ExportedLevels)

\* run_level on a custom level: it has no auto_solution and no enemy.
NextExported ==
    \/ \E d \in Direction : KeyPress(d)
    \/ \E b \in {"menu", "create"} : handle_button_click(b)
    \/ LoopHead
    \/ ReplayStep
    \/ ReplayFinish
    \/ BravoDone

SpecExported == InitExported /\ [][NextExported]_vars

\* pos is inside the rectangle of the cells of the level's layout.
InsideLayout(pos) ==
    LET first == get_screen_position(level.layout, 0, 0)
        last  == get_screen_position(level.layout, Len(level.layout) - 1,
                                     Len(level.layout[1]) - 1)
    IN /\ first[1] <= pos[1] /\ pos[1] <= last[1]
       /\ last[2] <= pos[2] /\ pos[2] <= first[2]

\* C36: during play of a level, after any sequence of keyboard moves
\* interleaved with frames of the play loop, the player's position stays
\* inside the bounding rectangle of the level's layout.
C36_PlayerStaysInside ==
    pc # "returned" => InsideLayout(player_pos)

\* The player stepped out of the rectangle over a border cell that held a
\* treasure, which a frame in between had collected.
C36_OutOverTreasure ==
    /\ pc = "frame_upd"
    /\ ~InsideLayout(player_pos)
    /\ gold = TREASURE_VALUE

----------------------------------------------------------------------------
(* Walking the built-in levels *)

\* A built-in level set up, each Enemy having drawn UP as its first heading.
InitSolve ==
    /\ InitPlay(levels)
    /\ \A i \in DOMAIN enemy : enemy[i].current_direction = "UP"

\* The player's key presses and the frames of run_level, before any enemy
\* timer has fired.
NextSolve ==
    \/ \E d \in Direction : KeyPress(d)
    \/ LoopHead

SpecSolve == InitSolve /\ [][NextSolve]_vars

\* The positions Player.move accepts a step to from a position of from,
\* within the layout's rectangle.
Accepted(from) ==
    {m.pos : m \in {r \in {move(p, <<>>, FALSE, FALSE, d, walls) :
                                p \in from, d \in Direction} :
                        r.ret /\ InsideLayout(r.pos)}}

\* Every position a sequence of accepted steps leads to from seen, the
\* positions of fresh being those whose steps have not been taken yet.
RECURSIVE Walk(_, _)
Walk(seen, fresh) ==
    IF fresh = {} THEN seen
    ELSE LET new == Accepted(fresh) \ seen
         IN Walk(seen \cup new, new)

Reachable(pos) == Walk({pos}, {pos})

\* C37: every built-in level is solvable: from the player spawn a sequence
\* of accepted Player.move steps brings the player onto the level's end
\* position.
C37_Solvable ==
    player_pos = player_spawn => end_pos \in Reachable(player_spawn)

\* level_2, the level without an auto_solution: the player has walked
\* three accepted steps from the spawn and stands on a cell from which the
\* end position is still within reach.
C37_Witness ==
    /\ level = level_2
    /\ Len(move_history) = 3
    /\ move_ret
    /\ player_pos # player_spawn
    /\ end_pos \in Reachable(player_pos)


====
